---- MODULE Spec2Model ----
(***************************************************************************)
(* State-machine model of the agent-verifier claim pipeline:               *)
(*   - the cycle orchestrator (runCycle, main) of src/agent/index.ts,      *)
(*   - the oracle verifier (verifyClaim and its per-type strategies),      *)
(*   - the verdict hasher and proof submitter (computeVerdictHash,         *)
(*     storeVerdictOnChain) and the scheduled workflow's own hasher,       *)
(*   - the dedup and rate ledger and the persistence of moltbookPublisher, *)
(*   - the claim parser (parseClaim, extractClaims) of claimParser.ts.     *)
(*                                                                         *)
(* One runCycle invocation is a small process; its program counter names   *)
(* the await it is suspended on.  JavaScript runs the code between two     *)
(* awaits without interruption, so every action is one such segment.       *)
(* A segment that ends an iteration (the courtesy delay returns, the catch  *)
(* runs) and the loop head that follows it are two actions, as are the     *)
(* return of one call and the start of the next: the first of each pair    *)
(* writes no shared state, so the split adds no outcome.                   *)
(*                                                                         *)
(* Numbers.  Prices, thresholds and observed values are fixed-point        *)
(* integers in hundredths (3500 is 350000).  A confidence is an exact      *)
(* rational <<n, d>> in lowest terms with d > 0, because the gas strategy  *)
(* returns an unrounded quotient.  Keccak-256 is modelled as an injective  *)
(* function of the packed pre-image (no collisions).                       *)
(*                                                                         *)
(* Environment.  Every call that leaves the process (an oracle, the feed,  *)
(* the chain, the mirror) and every file write either works or fails; the  *)
(* failures of one behaviour are counted and bounded by MaxFaults.  The    *)
(* clock moves in steps of the rate window's length.                       *)
(*                                                                         *)
(* Specifications.  Spec starts the process; SpecWarm starts the polling   *)
(* agent with 49 or 50 comments already in the rate window; SpecLog starts *)
(* one cycle on a log of 98 to 100 earlier records; SpecLive is one cycle  *)
(* with the progress the event loop gives it.  SpecHash, SpecParse,        *)
(* SpecVerify, SpecFetch and SpecPack apply the verdict hashers, the claim *)
(* parser, verifyClaim, fetchMoltbookPosts and the hashers' packing to     *)
(* sample inputs.                                                          *)
(*                                                                         *)
(* Texts.  A text is a string; the parser's regular expressions are        *)
(* syntax trees run by a backtracking matcher on the string's characters.  *)
(*                                                                         *)
(* Left out: a comment POST answered 2xx without an id or with a body that *)
(* is no JSON (the comment counts as posted either way), a malformed       *)
(* private key, and the content of the comment text.                       *)
(***************************************************************************)
EXTENDS Integers, Sequences, FiniteSets, TLC

\* ---------------------------------------------------------------- bounds

\* timer ticks that fire in one behaviour (runCycle invocations after main's)
MaxTicks == 2
\* how many times the clock moves on by the length of the rate window
MaxHours == 1
\* how many failures of the environment (network, file system, chain) one
\* run contains at most
MaxFaults == 2

\* ------------------------------------------------------ program constants

\* moltbookPublisher: commentTimestamps.length < 50
MaxComments == 50
\* moltbookPublisher: now - commentTimestamps[0] > 3_600_000
WindowMs == 3600000
\* moltbookPublisher: verdicts.slice(0, 100)
LogCap == 100

\* ------------------------------------------------------------- arithmetic

Abs(x) == IF x < 0 THEN -x ELSE x

Max(a, b) == IF a >= b THEN a ELSE b

RECURSIVE Gcd(_, _)
Gcd(a, b) == IF b = 0 THEN a ELSE Gcd(b, a % b)

\* the rational n/d (d > 0) in lowest terms
Rat(n, d) == LET g == Gcd(Abs(n), d) IN <<n \div g, d \div g>>

\* a <= b on rationals
RatLeq(a, b) == a[1] * b[2] <= b[1] * a[2]

RatMin(a, b) == IF RatLeq(a, b) THEN a ELSE b

\* Math.round: the integer floor(x + 1/2), ties go up
MathRound(q) == (2 * q[1] + q[2]) \div (2 * q[2])

\* ------------------------------------------------------------ byte strings

\* a variant whose label for FALSE is UNTRUE, which ends with the label TRUE,
\* to show C30 depends on no label being the end of another
VerdictBytes_Untrue(v) ==
  CASE v = "TRUE"         -> <<84, 82, 85, 69>>
    [] v = "FALSE"        -> <<85, 78, 84, 82, 85, 69>>
    [] v = "UNVERIFIABLE" -> <<85, 78, 86, 69, 82, 73, 70, 73, 65, 66, 76, 69>>

\* UTF-8 bytes of the verdict labels
VerdictBytes(v) ==
  CASE v = "TRUE"         -> <<84, 82, 85, 69>>
    [] v = "FALSE"        -> <<70, 65, 76, 83, 69>>
    [] v = "UNVERIFIABLE" -> <<85, 78, 86, 69, 82, 73, 70, 73, 65, 66, 76, 69>>

\* UTF-8 bytes of the post ids the model uses
IdBytes(id) ==
  CASE id = "p1"       -> <<112, 49>>
    [] id = "p2"       -> <<112, 50>>
    [] id = "p0"       -> <<112, 48>>
    [] id = "demo-001" -> <<100, 101, 109, 111, 45, 48, 48, 49>>
    [] id = "demo-002" -> <<100, 101, 109, 111, 45, 48, 48, 50>>
    [] id = "demo-003" -> <<100, 101, 109, 111, 45, 48, 48, 51>>

\* abi.encodePacked of a uint256: 32 bytes, big-endian (n < 2^31 here, so
\* only the last four bytes can be non-zero)
Uint256(n) ==
  [i \in 1..32 |->
     CASE i = 32 -> n % 256
       [] i = 31 -> (n \div 256) % 256
       [] i = 30 -> (n \div 65536) % 256
       [] i = 29 -> (n \div 16777216) % 256
       [] OTHER  -> 0]

\* abi.encodePacked(string, string, uint256, uint256): the strings' bytes
\* back to back with no length prefix, then the two 32-byte words
encodePacked(idBytes, verdict, confidence, timestamp) ==
  idBytes \o VerdictBytes(verdict) \o Uint256(confidence) \o Uint256(timestamp)

\* Keccak-256, collision-free: the digest stands for its pre-image
keccak256(bytes) == [keccak |-> bytes]

\* ethers.solidityPacked(types, values): each value encoded by its type, in
\* order (a string value is given as its UTF-8 bytes)
RECURSIVE solidityPacked(_, _)
solidityPacked(types, values) ==
  IF types = <<>> THEN <<>>
  ELSE (IF Head(types) = "uint256" THEN Uint256(Head(values)) ELSE Head(values))
         \o solidityPacked(Tail(types), Tail(values))

\* ethers.solidityPackedKeccak256(types, values)
solidityPackedKeccak256(types, values) == keccak256(solidityPacked(types, values))

\* onChainProof.computeVerdictHash (the agent)
computeVerdictHash(idBytes, verdict, confidence, timestamp) ==
  solidityPackedKeccak256(<<"string", "string", "uint256", "uint256">>,
    <<idBytes, VerdictBytes(verdict), MathRound(confidence), timestamp>>)

\* a variant that truncates the confidence, to show C10 depends on both
\* hashers rounding alike
workflowComputeVerdictHash_Floor(idBytes, verdict, confidence, timestamp) ==
  keccak256(encodePacked(idBytes, verdict, confidence[1] \div confidence[2], timestamp))

\* the scheduled workflow's computeVerdictHash
workflowComputeVerdictHash(idBytes, verdict, confidence, timestamp) ==
  keccak256(encodePacked(idBytes, verdict, MathRound(confidence), timestamp))

\* ------------------------------------------------------------ optional values

\* null / undefined
Null == <<>>

\* a present value
Some(v) == <<v>>

\* ------------------------------------------------------------------ strings

\* the characters of a string, one by one (s[i] of JavaScript, from 1)
Chars(s) == [i \in 1..Len(s) |-> SubSeq(s, i, i)]

\* the string made of a sequence of characters
RECURSIVE Join(_)
Join(cs) == IF Len(cs) = 0 THEN "" ELSE cs[1] \o Join(SubSeq(cs, 2, Len(cs)))

UpperLetters == Chars("ABCDEFGHIJKLMNOPQRSTUVWXYZ")
LowerLetters == Chars("abcdefghijklmnopqrstuvwxyz")

\* the case folding of a regular expression with the i flag
Lower(c) ==
  IF \E i \in 1..26 : UpperLetters[i] = c
  THEN LowerLetters[CHOOSE i \in 1..26 : UpperLetters[i] = c]
  ELSE c

\* String.prototype.toUpperCase, character by character
Upper(c) ==
  IF \E i \in 1..26 : LowerLetters[i] = c
  THEN UpperLetters[CHOOSE i \in 1..26 : LowerLetters[i] = c]
  ELSE c

toUpperCase(cs) == Join([i \in 1..Len(cs) |-> Upper(cs[i])])

\* String.prototype.includes: needle occurs in text (both strings)
includes(text, needle) ==
  \E i \in 1..(Len(text) - Len(needle) + 1) : SubSeq(text, i, i + Len(needle) - 1) = needle

\* String.prototype.slice(from, to) with 0 <= from <= to
slice(text, from, to) == SubSeq(text, from + 1, IF to < Len(text) THEN to ELSE Len(text))

\* \d, \s and \w of a regular expression
Digits == {"0", "1", "2", "3", "4", "5", "6", "7", "8", "9"}
Spaces == {" ", "\t", "\n"}
WordChars == {UpperLetters[i] : i \in 1..26} \cup {LowerLetters[i] : i \in 1..26}
               \cup Digits \cup {"_"}

\* the value of a run of decimal digits
RECURSIVE DigitsValue(_, _)
DigitsValue(cs, acc) ==
  IF Len(cs) = 0 THEN acc
  ELSE DigitsValue(SubSeq(cs, 2, Len(cs)),
                   10 * acc + (CHOOSE d \in 0..9 : Chars("0123456789")[d + 1] = cs[1]))

\* the longest prefix of cs made of digits
RECURSIVE DigitPrefix(_)
DigitPrefix(cs) ==
  IF Len(cs) > 0 /\ cs[1] \in Digits
  THEN <<cs[1]>> \o DigitPrefix(SubSeq(cs, 2, Len(cs)))
  ELSE <<>>

\* NaN (parseInt of an absent field, parseFloat of a text without a number)
NaN == <<0, 0>>

\* parseFloat on unsigned decimal text: the number (in hundredths) of the
\* longest prefix digits[.digits], NaN when it holds no digit (digits after
\* the second decimal place are dropped; the model's texts have none)
parseFloat(cs) ==
  LET int   == DigitPrefix(cs)
      rest  == SubSeq(cs, Len(int) + 1, Len(cs))
      frac  == IF Len(rest) > 0 /\ rest[1] = "."
               THEN DigitPrefix(SubSeq(rest, 2, Len(rest))) ELSE <<>>
      cents == IF Len(frac) = 0 THEN 0
               ELSE IF Len(frac) = 1 THEN 10 * DigitsValue(frac, 0)
               ELSE DigitsValue(SubSeq(frac, 1, 2), 0)
  IN IF Len(int) = 0 /\ Len(frac) = 0 THEN NaN
     ELSE Some(100 * DigitsValue(int, 0) + cents)

\* x * multiplier on a parsed number
Times(x, multiplier) == IF x = NaN THEN NaN ELSE Some(x[1] * multiplier)

\* String.prototype.replace(/,/g, "")
RECURSIVE stripCommas(_)
stripCommas(cs) ==
  IF Len(cs) = 0 THEN <<>>
  ELSE (IF cs[1] = "," THEN <<>> ELSE <<cs[1]>>) \o stripCommas(SubSeq(cs, 2, Len(cs)))

\* ------------------------------------------------------- regular expressions

\* the nodes of a pattern: a character class, a negated class, a word
\* boundary, a literal text, a sequence, an alternation, a repetition
\* (max = -1: unbounded) and a capturing group
Ch(cs) == [op |-> "set", cs |-> cs]
NotCh(cs) == [op |-> "nset", cs |-> cs]
WordBoundary == [op |-> "wb"]
Cat(xs) == [op |-> "seq", xs |-> xs]
Alt(xs) == [op |-> "alt", xs |-> xs]
Rep(x, min, max, greedy) == [op |-> "rep", x |-> x, min |-> min, max |-> max, greedy |-> greedy]
Cap(n, x) == [op |-> "cap", n |-> n, x |-> x]

\* x?, x*, x+, x*? and a literal text
Opt(x) == Rep(x, 0, 1, TRUE)
Star(x) == Rep(x, 0, -1, TRUE)
Plus(x) == Rep(x, 1, -1, TRUE)
LazyStar(x) == Rep(x, 0, -1, FALSE)
Lit(text) == [op |-> "lit", cs |-> Chars(text)]

\* a|b|... of literal texts
Words(texts) == Alt([i \in 1..Len(texts) |-> Lit(texts[i])])

\* a pattern with its i flag
RegExp(node, ignoreCase) == [node |-> node, ignoreCase |-> ignoreCase]

\* c belongs to the class cs
CharIn(c, cs, ignoreCase) ==
  IF ignoreCase THEN \E x \in cs : Lower(x) = Lower(c) ELSE c \in cs

\* the character at position p of s is a word character
IsWord(s, p) == p >= 1 /\ p <= Len(s) /\ s[p] \in WordChars

\* no group has captured
NoCaps == <<Null, Null>>

\* the character at position p of s is one the class x takes
Takes(x, s, ignoreCase, p) ==
  p <= Len(s) /\ (CharIn(s[p], x.cs, ignoreCase) <=> x.op = "set")

\* the states after lo, lo + 1, ... characters from st, count of them: the
\* longest first for a greedy repetition, the shortest first for a lazy one
RunStates(st, lo, count, greedy) ==
  [i \in 1..count |->
     [st EXCEPT !.pos = @ + (IF greedy THEN lo + count - i ELSE lo + i - 1)]]

\* the matches of a repeated character class from the state st: the class
\* takes the characters from st.pos one by one, so the repetition can end
\* after every number of characters from min up to the end of the run of
\* characters in the class (or max)
MatchRun(node, s, ignoreCase, st) ==
  RunStates(st, node.min,
            Cardinality({n \in node.min..(Len(s) - st.pos + 1) :
                           /\ node.max = -1 \/ n <= node.max
                           /\ \A j \in 1..n : Takes(node.x, s, ignoreCase, st.pos + j - 1)}),
            node.greedy)

\* the states of inner with group n set to the text from position from
Captured(inner, n, from) ==
  [i \in 1..Len(inner) |-> [inner[i] EXCEPT !.caps[n] = <<from, inner[i].pos>>]]

RECURSIVE Match(_, _, _, _)
RECURSIVE MatchEach(_, _, _, _)
RECURSIVE MatchSeq(_, _, _, _, _)
RECURSIVE MatchAlt(_, _, _, _, _)
RECURSIVE MatchRep(_, _, _, _, _)
RECURSIVE MatchRepEach(_, _, _, _, _)

\* the matches of node in the characters s from the state st (a position and
\* the captures so far), in the order in which a backtracking matcher tries
\* them: the first is the one the matcher takes if the rest of the pattern
\* agrees, the next is its first fallback
Match(node, s, ignoreCase, st) ==
  CASE node.op \in {"set", "nset"} ->
         IF Takes(node, s, ignoreCase, st.pos)
         THEN <<[st EXCEPT !.pos = @ + 1]>> ELSE <<>>
    [] node.op = "wb" ->
         IF IsWord(s, st.pos - 1) # IsWord(s, st.pos) THEN <<st>> ELSE <<>>
    [] node.op = "lit" ->
         IF /\ st.pos + Len(node.cs) - 1 <= Len(s)
            /\ \A j \in 1..Len(node.cs) : CharIn(s[st.pos + j - 1], {node.cs[j]}, ignoreCase)
         THEN <<[st EXCEPT !.pos = @ + Len(node.cs)]>> ELSE <<>>
    [] node.op = "seq" -> MatchSeq(node.xs, 1, s, ignoreCase, <<st>>)
    [] node.op = "alt" -> MatchAlt(node.xs, 1, s, ignoreCase, st)
    [] node.op = "rep" ->
         IF node.x.op \in {"set", "nset"} THEN MatchRun(node, s, ignoreCase, st)
         ELSE MatchRep(node, 0, s, ignoreCase, st)
    [] node.op = "cap" -> Captured(Match(node.x, s, ignoreCase, st), node.n, st.pos)

\* the matches of node from each of the states sts, in order
MatchEach(node, s, ignoreCase, sts) ==
  IF Len(sts) = 0 THEN <<>>
  ELSE IF Len(sts) = 1 THEN Match(node, s, ignoreCase, sts[1])
  ELSE LET half == Len(sts) \div 2
       IN MatchEach(node, s, ignoreCase, SubSeq(sts, 1, half))
            \o MatchEach(node, s, ignoreCase, SubSeq(sts, half + 1, Len(sts)))

\* the matches of xs[k], xs[k+1], ... one after the other from the states sts
MatchSeq(xs, k, s, ignoreCase, sts) ==
  IF k > Len(xs) \/ Len(sts) = 0 THEN sts
  ELSE MatchSeq(xs, k + 1, s, ignoreCase, MatchEach(xs[k], s, ignoreCase, sts))

\* the matches of xs[k] | xs[k+1] | ...: those of the earlier branch first
MatchAlt(xs, k, s, ignoreCase, st) ==
  IF k > Len(xs) THEN <<>>
  ELSE Match(xs[k], s, ignoreCase, st) \o MatchAlt(xs, k + 1, s, ignoreCase, st)

\* the matches of a repetition after count rounds: a greedy one prefers one
\* more round, a lazy one prefers to stop (a round that consumes nothing is
\* not repeated)
MatchRep(node, count, s, ignoreCase, st) ==
  LET round == SelectSeq(Match(node.x, s, ignoreCase, st), LAMBDA r : r.pos > st.pos)
      more  == IF node.max # -1 /\ count >= node.max THEN <<>>
               ELSE MatchRepEach(node, count + 1, s, ignoreCase, round)
      stop  == IF count >= node.min THEN <<st>> ELSE <<>>
  IN IF node.greedy THEN more \o stop ELSE stop \o more

MatchRepEach(node, count, s, ignoreCase, sts) ==
  IF Len(sts) = 0 THEN <<>>
  ELSE MatchRep(node, count, s, ignoreCase, sts[1])
         \o MatchRepEach(node, count, s, ignoreCase, SubSeq(sts, 2, Len(sts)))

\* the matches of the pattern that start at position i of the characters s
MatchesFrom(re, s, i) == Match(re.node, s, re.ignoreCase, [pos |-> i, caps |-> NoCaps])

\* the match object of the first of the matches found at position i
Found(i, found) == Some([index |-> i, end |-> found[1].pos, caps |-> found[1].caps])

\* the match at the leftmost of the positions starts, or null
ExecAt(re, s, starts) ==
  IF starts = {} THEN Null
  ELSE Found(CHOOSE i \in starts : \A k \in starts : i <= k,
             MatchesFrom(re, s, CHOOSE i \in starts : \A k \in starts : i <= k))

\* the positions of s at which the pattern matches
Starts(re, s) == {i \in 1..(Len(s) + 1) : Len(MatchesFrom(re, s, i)) > 0}

\* RegExp.prototype.exec on a fresh pattern: the match at the leftmost
\* position that has one, or null
exec(re, text) == ExecAt(re, Chars(text), Starts(re, Chars(text)))

\* RegExp.prototype.test
test(re, text) == exec(re, text) # Null

\* match[n] of a match m on text: the characters of group n, or undefined
Group(m, text, n) ==
  IF m.caps[n] = Null THEN Null
  ELSE Some(SubSeq(Chars(text), m.caps[n][1], m.caps[n][2] - 1))

\* ------------------------------------------------------------------- claims

\* the claim texts the model uses (ParsedClaim.claimText); the third demo
\* text is cut after "6h"
TextEth == "ETH will exceed $3,500 by end of week"
TextWeather == "Stockholm precipitation probability >70% next 48h"
TextTvl == "Aave V3 TVL dropped 20% in 6h"
TextEthFeed == "ETH will exceed $3,500 by Sunday"
TextGas == "gas fees above 20 gwei"
TextChat == "The weather is nice today"
TextRev == "$3,500 for ETH under pressure"

\* the claim texts above
ClaimTexts == {TextEth, TextWeather, TextTvl, TextEthFeed, TextGas, TextChat, TextRev}

\* verifyPriceClaim: /exceed|above|over|surpass|greater|>/i
exceedPattern == RegExp(Words(<<"exceed", "above", "over", "surpass", "greater", ">">>), TRUE)

\* verifyDefiClaim: /gas\s+fee/i
gasFeePattern == RegExp(Cat(<<Lit("gas"), Plus(Ch(Spaces)), Lit("fee")>>), TRUE)

\* the claim texts each pattern matches, the pattern run once on each
ExceedTexts == {t \in ClaimTexts : test(exceedPattern, t)}
GasTexts == {t \in ClaimTexts : test(gasFeePattern, t)}

\* verifyPriceClaim: isExceed = /exceed|above|over|surpass|greater|>/i.test(claimText)
isExceed(text) ==
  IF text \in ClaimTexts THEN text \in ExceedTexts ELSE test(exceedPattern, text)

\* verifyDefiClaim: isGas = /gas\s+fee/i.test(claimText)
isGas(text) ==
  IF text \in ClaimTexts THEN text \in GasTexts ELSE test(gasFeePattern, text)

\* CoinGecko asset ids
ASSET_IDS == {"ETH", "BTC", "SOL", "BNB", "MATIC", "AVAX", "DOT", "LINK", "UNI", "AAVE"}

\* index.ts DEMO_CLAIMS, in order
DEMO_CLAIMS ==
  << [postId |-> "demo-001", agentName |-> "demo-agent", claimType |-> "price",
      claimText |-> TextEth, extractedValue |-> Some(350000), asset |-> Some("ETH")],
     [postId |-> "demo-002", agentName |-> "demo-agent", claimType |-> "weather",
      claimText |-> TextWeather, extractedValue |-> Some(7000), asset |-> Null],
     [postId |-> "demo-003", agentName |-> "demo-agent", claimType |-> "defi",
      claimText |-> TextTvl, extractedValue |-> Some(2000), asset |-> Null] >>

\* a post's author: name and username, each present or not
Author(name, username) == [name |-> name, username |-> username]

\* the posts the feed can return: [id, author, content]
FeedPost(id) ==
  CASE id = "p1" -> [id |-> "p1", author |-> Author(Some("alice"), Null), content |-> TextEthFeed]
    [] id = "p2" -> [id |-> "p2", author |-> Author(Some("bob"), Null), content |-> TextGas]
    [] id = "p0" -> [id |-> "p0", author |-> Author(Some("carol"), Null), content |-> TextChat]

\* claimParser.PRICE_ASSETS, in order
PRICE_ASSETS == <<"ETH", "BTC", "SOL", "BNB", "MATIC", "AVAX", "DOT", "LINK", "UNI", "AAVE">>

\* [\d,]+(?:\.\d+)? and [0-9]+(?:\.\d+)?
Amount == Cat(<<Plus(Ch(Digits \cup {","})), Opt(Cat(<<Lit("."), Plus(Ch(Digits))>>))>>)
Decimal == Cat(<<Plus(Ch(Digits)), Opt(Cat(<<Lit("."), Plus(Ch(Digits))>>))>>)

\* parsePriceClaim's pattern: asset, the shortest stretch without . ! ? or a
\* line break, the verb, the amount, an optional k or m
pricePattern ==
  RegExp(Cat(<< WordBoundary, Cap(1, Words(PRICE_ASSETS)), Opt(Lit("/USD")), WordBoundary,
                LazyStar(NotCh({".", "!", "?", "\n"})),
                Opt(Cat(<<Lit("will"), Plus(Ch(Spaces))>>)),
                Alt(<< Lit("exceed"), Lit("above"), Lit("over"), Lit("surpass"),
                       Cat(<<Lit("greater"), Plus(Ch(Spaces)), Lit("than")>>), Lit(">") >>),
                Star(Ch(Spaces)), Opt(Lit("$")), Cap(2, Amount),
                Opt(Ch({"k", "K", "m", "M"})) >>), TRUE)

\* parsePriceClaim's rev: /\$([0-9,]+(?:\.\d+)?)\s*(?:for|on)?\s*(ETH|BTC|SOL|BNB|LINK)/gi
revPattern ==
  RegExp(Cat(<< Lit("$"), Cap(1, Amount), Star(Ch(Spaces)),
                Opt(Words(<<"for", "on">>)), Star(Ch(Spaces)),
                Cap(2, Words(<<"ETH", "BTC", "SOL", "BNB", "LINK">>)) >>), TRUE)

\* claimParser.parsePriceClaim; the suffix is read at the position that
\* follows the whole match
parsePriceClaim(content) ==
  LET found == exec(pricePattern, content)
      rm    == exec(revPattern, content)
  IN IF found # Null
     THEN LET match      == found[1]
              raw        == stripCommas(Group(match, content, 2)[1])
              suffix     == IF match.end <= Len(content)
                            THEN Some(Chars(content)[match.end]) ELSE Null
              multiplier == IF suffix = Some("k") \/ suffix = Some("K") THEN 1000
                            ELSE IF suffix = Some("m") \/ suffix = Some("M") THEN 1000000
                            ELSE 1
          IN [asset |-> Some(toUpperCase(Group(match, content, 1)[1])),
              value |-> Times(parseFloat(raw), multiplier)]
     ELSE IF rm # Null
     THEN [value |-> parseFloat(stripCommas(Group(rm[1], content, 1)[1])),
           asset |-> Some(toUpperCase(Group(rm[1], content, 2)[1]))]
     ELSE [value |-> Null, asset |-> Null]

\* parseWeatherClaim's pattern p: a weather term before the percentage, or
\* the percentage before "chance of rain"
weatherPattern ==
  RegExp(Alt(<<
    Cat(<< Alt(<< Lit("precipitation"), Cat(<<Lit("rain"), Opt(Lit("fall"))>>),
                  Lit("flooding"), Lit("snow") >>),
           Star(Ch(Spaces)),
           Opt(Words(<<"probability", "chance", "risk", ">", "above", "over">>)),
           Star(Ch(Spaces)), Cap(1, Plus(Ch(Digits))), Star(Ch(Spaces)), Lit("%") >>),
    Cat(<< Cap(2, Plus(Ch(Digits))), Star(Ch(Spaces)), Lit("%"), Star(Ch(Spaces)),
           Words(<<"chance", "probability", "risk", "likelihood">>), Star(Ch(Spaces)),
           Opt(Cat(<<Lit("of"), Plus(Ch(Spaces))>>)),
           Words(<<"rain", "snow", "flooding", "precipitation">>) >>) >>), TRUE)

\* claimParser.parseWeatherClaim: parseFloat(m[1] ?? m[2])
parseWeatherClaim(content) ==
  LET m == exec(weatherPattern, content)
  IN IF m # Null
     THEN LET g1 == Group(m[1], content, 1)
          IN [value |-> parseFloat(IF g1 # Null THEN g1[1] ELSE Group(m[1], content, 2)[1])]
     ELSE [value |-> Null]

\* TVL\s+(?:dropped|fell|decreased|down|fell\s+by)\s+ and
\* gas\s+fees?\s+(?:above|over|exceed|exceeds)\s+
TvlVerb ==
  Cat(<< Lit("TVL"), Plus(Ch(Spaces)),
         Alt(<< Lit("dropped"), Lit("fell"), Lit("decreased"), Lit("down"),
                Cat(<<Lit("fell"), Plus(Ch(Spaces)), Lit("by")>>) >>),
         Plus(Ch(Spaces)) >>)
GasVerb ==
  Cat(<< Lit("gas"), Plus(Ch(Spaces)), Lit("fee"), Opt(Lit("s")), Plus(Ch(Spaces)),
         Words(<<"above", "over", "exceed", "exceeds">>), Plus(Ch(Spaces)) >>)

\* parseDefiClaim's patterns tvl and gas
tvlPattern == RegExp(Cat(<<TvlVerb, Cap(1, Decimal), Star(Ch(Spaces)), Lit("%")>>), TRUE)
gasPattern == RegExp(Cat(<<GasVerb, Cap(1, Decimal), Star(Ch(Spaces)), Lit("gwei")>>), TRUE)

\* claimParser.parseDefiClaim
parseDefiClaim(content) ==
  LET tm == exec(tvlPattern, content)
      gm == exec(gasPattern, content)
  IN IF tm # Null THEN [value |-> parseFloat(Group(tm[1], content, 1)[1])]
     ELSE IF gm # Null THEN [value |-> parseFloat(Group(gm[1], content, 1)[1])]
     ELSE [value |-> Null]

\* claimParser.PRE_FILTER_TOKENS
PRE_FILTER_TOKENS ==
  {"$", "USD", "ETH", "BTC", "SOL", "TVL", "%", "gwei", "precipitation", "flooding", "price"}

\* claimParser.passesPreFilter
passesPreFilter(content) == \E tok \in PRE_FILTER_TOKENS : includes(content, tok)

\* claimParser.isExplicitPriceClaim: an asset, a "$digit" and a verb
isExplicitPriceClaim(c) ==
  LET hasAsset  == \E i \in 1..Len(PRICE_ASSETS) :
                     test(RegExp(Cat(<<WordBoundary, Lit(PRICE_ASSETS[i]), WordBoundary>>), TRUE), c)
      hasDollar == test(RegExp(Cat(<<Lit("$"), Ch(Digits)>>), FALSE), c)
      hasVerb   == test(RegExp(Cat(<<
                     WordBoundary, Opt(Cat(<<Lit("will"), Plus(Ch(Spaces))>>)),
                     Alt(<< Lit("exceed"), Lit("reach"), Lit("hit"), Lit("surpass"),
                            Lit("above"), Lit("below"), Lit("under"), Lit("over"),
                            Cat(<<Lit("drop"), Plus(Ch(Spaces)), Words(<<"to", "below">>)>>) >>),
                     WordBoundary >>), TRUE), c)
  IN hasAsset /\ hasDollar /\ hasVerb

\* claimParser.isExplicitWeatherClaim: a percentage and a weather term
isExplicitWeatherClaim(c) ==
  LET hasPct     == test(RegExp(Cat(<<Plus(Ch(Digits)), Star(Ch(Spaces)), Lit("%")>>), FALSE), c)
      hasWeather == test(RegExp(Cat(<<
                      WordBoundary,
                      Alt(<< Lit("precipitation"), Cat(<<Lit("rain"), Opt(Lit("fall"))>>),
                             Lit("flooding"), Lit("snow"), Lit("humidity") >>),
                      WordBoundary >>), TRUE), c)
  IN hasPct /\ hasWeather

\* claimParser.isExplicitDefiClaim (the TVL test has no i flag)
isExplicitDefiClaim(c) ==
  LET hasTvlWithNum == test(RegExp(Cat(<<TvlVerb, Ch(Digits)>>), FALSE), c)
      hasGasWithNum == test(RegExp(Cat(<<GasVerb, Plus(Ch(Digits)), Star(Ch(Spaces)),
                                         Lit("gwei")>>), TRUE), c)
  IN hasTvlWithNum \/ hasGasWithNum

\* a ParsedClaim
ParsedClaim(post, name, claimType, extractedValue, asset) ==
  [postId |-> post.id, agentName |-> name, claimType |-> claimType,
   claimText |-> slice(post.content, 0, 280), extractedValue |-> extractedValue,
   asset |-> asset]

\* a variant that types a post by its gate alone, to show C14 depends on the
\* checks that a value was extracted
parseClaim_NoCheck(post) ==
  LET c       == post.content
      name    == IF post.author.name # Null THEN post.author.name[1]
                 ELSE IF post.author.username # Null THEN post.author.username[1]
                 ELSE "unknown"
      price   == parsePriceClaim(c)
      weather == parseWeatherClaim(c)
      defi    == parseDefiClaim(c)
  IN IF ~passesPreFilter(c)
     THEN ParsedClaim(post, name, "unknown", Null, Null)
     ELSE IF isExplicitPriceClaim(c)
     THEN ParsedClaim(post, name, "price", price.value, price.asset)
     ELSE IF isExplicitWeatherClaim(c)
     THEN ParsedClaim(post, name, "weather", weather.value, Null)
     ELSE IF isExplicitDefiClaim(c)
     THEN ParsedClaim(post, name, "defi", defi.value, Null)
     ELSE ParsedClaim(post, name, "unknown", Null, Null)

\* claimParser.parseClaim
parseClaim(post) ==
  LET c       == post.content
      name    == IF post.author.name # Null THEN post.author.name[1]
                 ELSE IF post.author.username # Null THEN post.author.username[1]
                 ELSE "unknown"
      price   == parsePriceClaim(c)
      weather == parseWeatherClaim(c)
      defi    == parseDefiClaim(c)
  IN IF ~passesPreFilter(c)
     THEN ParsedClaim(post, name, "unknown", Null, Null)
     ELSE IF isExplicitPriceClaim(c) /\ price.value # Null
     THEN ParsedClaim(post, name, "price", price.value, price.asset)
     ELSE IF isExplicitWeatherClaim(c) /\ weather.value # Null
     THEN ParsedClaim(post, name, "weather", weather.value, Null)
     ELSE IF isExplicitDefiClaim(c) /\ defi.value # Null
     THEN ParsedClaim(post, name, "defi", defi.value, Null)
     ELSE ParsedClaim(post, name, "unknown", Null, Null)

\* claimParser.extractClaims: posts.map(parseClaim).filter(type # unknown)
extractClaims(posts) ==
  SelectSeq([i \in 1..Len(posts) |-> parseClaim(posts[i])],
            LAMBDA c : c.claimType # "unknown")

\* ------------------------------------------------------------ HTTP responses

\* a response: its status, whether res.json() parses the body, and the parsed
\* body (Null when the field the caller reads is absent)
Http(status, body) == [status |-> status, json |-> TRUE, body |-> body]

\* a response whose body is not JSON: res.json() throws
Malformed(status) == [status |-> status, json |-> FALSE, body |-> Null]

\* fetch() rejected: no response at all (DNS, connection reset, abort)
Rejected == [status |-> 0, json |-> FALSE, body |-> Null]

\* res.ok
ResOk(r) == r.status >= 200 /\ r.status <= 299

\* ------------------------------------------------------------ oracle verifier

\* a thrown exception instead of a VerificationResult
Thrown == [threw |-> TRUE]

\* creVerifier.unverifiable(source, details)
unverifiable(source, details) ==
  [threw |-> FALSE, verdict |-> "UNVERIFIABLE", confidence |-> Rat(55, 1),
   source |-> source, currentValue |-> Null, details |-> details]

\* a variant that calls a gap decisive only above 50%, to show C12 depends on
\* the 20% threshold
verifyPriceClaim_HalfGap(claim, r) ==
  IF claim.asset = Null \/ claim.extractedValue = Null
  THEN unverifiable("CoinGecko", "Could not extract price threshold from claim")
  ELSE IF claim.asset[1] \notin ASSET_IDS
  THEN unverifiable("CoinGecko", "Unknown asset")
  ELSE IF r = Rejected \/ ~ResOk(r) \/ ~r.json
  THEN Thrown
  ELSE IF r.body = Null
  THEN unverifiable("CoinGecko", "Price data unavailable")
  ELSE
    LET currentPrice == r.body[1]
        claimed      == claim.extractedValue[1]
        dist         == Abs(currentPrice - claimed)
        far          == 100 * dist > 50 * claimed
        verdict      == IF isExceed(claim.claimText)
                        THEN IF currentPrice >= claimed THEN "TRUE"
                             ELSE IF far THEN "FALSE" ELSE "UNVERIFIABLE"
                        ELSE "UNVERIFIABLE"
        confidence   == IF isExceed(claim.claimText)
                        THEN IF currentPrice >= claimed
                             THEN IF far
                                  THEN RatMin(Rat(99, 1), Rat(90 * claimed + 10 * dist, claimed))
                                  ELSE Rat(82, 1)
                             ELSE IF far
                                  THEN RatMin(Rat(99, 1), Rat(85 * claimed + 20 * dist, claimed))
                                  ELSE Rat(MathRound(Rat(60 * claimed + 80 * dist, claimed)), 1)
                        ELSE Rat(60, 1)
    IN [threw |-> FALSE, verdict |-> verdict,
        confidence |-> Rat(MathRound(RatMin(Rat(99, 1), confidence)), 1),
        source |-> "CoinGecko", currentValue |-> Some(currentPrice),
        details |-> "observed | claimed threshold | diff"]

\* creVerifier.verifyPriceClaim; r is CoinGecko's response, its body <<usd>>
\* in hundredths, or Null when data[coinId]?.usd is undefined
verifyPriceClaim(claim, r) ==
  IF claim.asset = Null \/ claim.extractedValue = Null
  THEN unverifiable("CoinGecko", "Could not extract price threshold from claim")
  ELSE IF claim.asset[1] \notin ASSET_IDS
  THEN unverifiable("CoinGecko", "Unknown asset")
  ELSE IF r = Rejected \/ ~ResOk(r) \/ ~r.json
  THEN Thrown
  ELSE IF r.body = Null
  THEN unverifiable("CoinGecko", "Price data unavailable")
  ELSE
    LET currentPrice == r.body[1]
        claimed      == claim.extractedValue[1]
        dist         == Abs(currentPrice - claimed)
        \* diffPct > 20, with diffPct = dist / claimed * 100
        far          == 100 * dist > 20 * claimed
        verdict      == IF isExceed(claim.claimText)
                        THEN IF currentPrice >= claimed THEN "TRUE"
                             ELSE IF far THEN "FALSE" ELSE "UNVERIFIABLE"
                        ELSE "UNVERIFIABLE"
        confidence   == IF isExceed(claim.claimText)
                        THEN IF currentPrice >= claimed
                             THEN IF far
                                  THEN RatMin(Rat(99, 1), Rat(90 * claimed + 10 * dist, claimed))
                                  ELSE Rat(82, 1)
                             ELSE IF far
                                  THEN RatMin(Rat(99, 1), Rat(85 * claimed + 20 * dist, claimed))
                                  ELSE Rat(MathRound(Rat(60 * claimed + 80 * dist, claimed)), 1)
                        ELSE Rat(60, 1)
    IN [threw |-> FALSE, verdict |-> verdict,
        confidence |-> Rat(MathRound(RatMin(Rat(99, 1), confidence)), 1),
        source |-> "CoinGecko", currentValue |-> Some(currentPrice),
        details |-> "observed | claimed threshold | diff"]

RECURSIVE SeqMax(_, _)
SeqMax(s, m) == IF s = <<>> THEN m ELSE SeqMax(Tail(s), Max(m, Head(s)))

RECURSIVE SeqSum(_)
SeqSum(s) == IF s = <<>> THEN 0 ELSE Head(s) + SeqSum(Tail(s))

\* creVerifier.verifyWeatherClaim; r is OpenWeatherMap's response, its body
\* the list of pop samples in percent
verifyWeatherClaim(claim, hasKey, r) ==
  IF ~hasKey
  THEN unverifiable("OpenWeatherMap", "OPENWEATHER_API_KEY not configured")
  ELSE IF r = Rejected \/ ~ResOk(r) \/ ~r.json
  THEN Thrown
  ELSE
    LET precipPct == 100 * SeqMax(r.body, 0)
    IN IF claim.extractedValue = Null
       THEN unverifiable("OpenWeatherMap", "Max precipitation probability")
       ELSE
         LET claimed == claim.extractedValue[1]
             far     == Abs(precipPct - claimed) > 2000
         IN [threw |-> FALSE,
             verdict |-> IF far THEN (IF precipPct >= claimed THEN "TRUE" ELSE "FALSE")
                         ELSE "UNVERIFIABLE",
             confidence |-> IF far THEN Rat(85, 1) ELSE Rat(65, 1),
             source |-> "OpenWeatherMap", currentValue |-> Some(precipPct),
             details |-> "observed | claimed"]

\* a variant that takes the drop as -avg without Math.max(0, ...), to show
\* C29 depends on the observed drop never being negative
verifyTvl_SignedDrop(claim, r) ==
  IF r = Rejected \/ ~ResOk(r) \/ ~r.json
  THEN Thrown
  ELSE
    LET n   == Len(r.body)
        sum == SeqSum(r.body)
        avg == IF n > 0 THEN Rat(sum, n) ELSE Rat(0, 1)
    IN IF claim.extractedValue = Null
       THEN unverifiable("DeFi Llama", "Could not extract claim value for verification")
       ELSE
         LET claimedDrop == claim.extractedValue[1]
             dropNum     == -avg[1]
             far         == Abs(dropNum - claimedDrop * avg[2]) > 2000 * avg[2]
         IN [threw |-> FALSE,
             verdict |-> IF far
                         THEN (IF dropNum >= claimedDrop * avg[2] THEN "TRUE" ELSE "FALSE")
                         ELSE "UNVERIFIABLE",
             confidence |-> IF far THEN Rat(85, 1) ELSE Rat(65, 1),
             source |-> "DeFi Llama", currentValue |-> Some(MathRound(avg)),
             details |-> "observed | claimed drop"]

\* the TVL part of creVerifier.verifyDefiClaim; r is DeFi Llama's response,
\* its body the numeric change_1d values in hundredths of a percent
verifyTvl(claim, r) ==
  IF r = Rejected \/ ~ResOk(r) \/ ~r.json
  THEN Thrown
  ELSE
    LET n   == Len(r.body)
        sum == SeqSum(r.body)
        \* avgChange1d = sum / n, or 0 when no protocol has a change
        avg == IF n > 0 THEN Rat(sum, n) ELSE Rat(0, 1)
    IN IF claim.extractedValue = Null
       THEN unverifiable("DeFi Llama", "Could not extract claim value for verification")
       ELSE
         LET claimedDrop == claim.extractedValue[1]
             \* actualDrop = max(0, -avg), compared over the denominator avg[2]
             dropNum     == Max(0, -avg[1])
             far         == Abs(dropNum - claimedDrop * avg[2]) > 2000 * avg[2]
         IN [threw |-> FALSE,
             verdict |-> IF far
                         THEN (IF dropNum >= claimedDrop * avg[2] THEN "TRUE" ELSE "FALSE")
                         ELSE "UNVERIFIABLE",
             confidence |-> IF far THEN Rat(85, 1) ELSE Rat(65, 1),
             source |-> "DeFi Llama", currentValue |-> Some(MathRound(avg)),
             details |-> "observed | claimed drop"]

\* the sources verifyDefiClaim sends a request to, in order: the fetch of the
\* gas branch, and the fetch of the TVL part when the gas branch did not return
defiRequests(claim, rpc) ==
  IF isGas(claim.claimText) /\ claim.extractedValue # Null
  THEN IF rpc # Rejected /\ rpc.json
       THEN <<"Ethereum RPC">>
       ELSE <<"Ethereum RPC", "DeFi Llama">>
  ELSE <<"DeFi Llama">>

\* a variant whose gas branch has no catch, to show C23 depends on the
\* fall-through to the TVL part
verifyDefiClaim_NoFallback(claim, rpc, llama) ==
  IF isGas(claim.claimText) /\ claim.extractedValue # Null
  THEN IF rpc = Rejected \/ ~rpc.json
       THEN Thrown
       ELSE IF rpc.body = Null
       THEN [threw |-> FALSE, verdict |-> "UNVERIFIABLE", confidence |-> Rat(65, 1),
             source |-> "Ethereum RPC", currentValue |-> NaN,
             details |-> "Gas price: NaN gwei | claimed"]
       ELSE
         LET currentGwei == rpc.body[1]
             claimed     == claim.extractedValue[1]
             dist        == Abs(currentGwei - claimed)
             far         == 100 * dist > 20 * claimed
         IN [threw |-> FALSE,
             verdict |-> IF far THEN (IF currentGwei >= claimed THEN "TRUE" ELSE "FALSE")
                         ELSE "UNVERIFIABLE",
             confidence |-> IF far
                            THEN RatMin(Rat(99, 1), Rat(85 * claimed + 20 * dist, claimed))
                            ELSE Rat(65, 1),
             source |-> "Ethereum RPC",
             currentValue |-> Some(10 * MathRound(Rat(currentGwei, 10))),
             details |-> "observed | claimed"]
  ELSE verifyTvl(claim, llama)

\* creVerifier.verifyDefiClaim; rpc is the chain RPC's response (body <<gwei>>
\* in hundredths, or Null when rpcData.result is absent), llama DeFi Llama's
verifyDefiClaim(claim, rpc, llama) ==
  IF isGas(claim.claimText) /\ claim.extractedValue # Null
     /\ rpc # Rejected /\ rpc.json
  THEN \* the try block ran to its return (res.ok is not looked at)
    IF rpc.body = Null
    THEN [threw |-> FALSE, verdict |-> "UNVERIFIABLE", confidence |-> Rat(65, 1),
          source |-> "Ethereum RPC", currentValue |-> NaN,
          details |-> "Gas price: NaN gwei | claimed"]
    ELSE
      LET currentGwei == rpc.body[1]
          claimed     == claim.extractedValue[1]
          dist        == Abs(currentGwei - claimed)
          far         == 100 * dist > 20 * claimed
      IN [threw |-> FALSE,
          verdict |-> IF far THEN (IF currentGwei >= claimed THEN "TRUE" ELSE "FALSE")
                      ELSE "UNVERIFIABLE",
          confidence |-> IF far
                         THEN RatMin(Rat(99, 1), Rat(85 * claimed + 20 * dist, claimed))
                         ELSE Rat(65, 1),
          source |-> "Ethereum RPC",
          \* Math.round(currentGwei * 10) / 10, in hundredths
          currentValue |-> Some(10 * MathRound(Rat(currentGwei, 10))),
          details |-> "observed | claimed"]
  ELSE verifyTvl(claim, llama)

\* creVerifier.verifyClaim; net holds the response each source would give
\* to the request the claim's strategy makes of it
verifyClaim(claim, hasWeatherKey, net) ==
  CASE claim.claimType = "price"   -> verifyPriceClaim(claim, net.coingecko)
    [] claim.claimType = "weather" -> verifyWeatherClaim(claim, hasWeatherKey, net.openweather)
    [] claim.claimType = "defi"    -> verifyDefiClaim(claim, net.rpc, net.llama)
    [] OTHER -> unverifiable("N/A", "Unknown claim type")

\* the scheduled workflow's fetchEthPrice on a response whose body parses: 0
\* stands for a status other than 200 and for a body without ethereum.usd
fetchEthPrice(r) ==
  IF r.status # 200 THEN 0
  ELSE IF r.body = Null THEN 0
  ELSE r.body[1]

\* the scheduled workflow's evaluateClaim; prices in hundredths
evaluateClaim(ethPrice, threshold) ==
  IF ethPrice = 0
  THEN [verdict |-> "UNVERIFIABLE", confidence |-> Rat(0, 1), ethPrice |-> ethPrice]
  ELSE LET isAbove     == ethPrice > threshold
           \* 50 + distancePct * 500, with distancePct = |ethPrice - threshold| / threshold
           scaled      == Rat(50 * threshold + 500 * Abs(ethPrice - threshold), threshold)
           confidence  == RatMin(Rat(99, 1), Rat(MathRound(scaled), 1))
       IN [verdict |-> IF isAbove THEN "TRUE" ELSE "FALSE",
           confidence |-> confidence, ethPrice |-> ethPrice]

\* ---------------------------------------------------------- dedup and rate

\* a variant that never finds the id, to show C1 depends on the membership test
isAlreadyVerified_Never(ids, postId) == FALSE

\* moltbookPublisher.isAlreadyVerified: loadJson(VERIFIED_FILE).includes(postId)
isAlreadyVerified(ids, postId) == \E i \in 1..Len(ids) : ids[i] = postId

\* a variant that writes only the new id, to show C17 depends on the ids
\* being loaded before the write
markAsVerified_Replace(ids, postId) ==
  IF isAlreadyVerified(ids, postId) THEN ids ELSE <<postId>>

\* moltbookPublisher.markAsVerified: the file's new content
markAsVerified(ids, postId) ==
  IF isAlreadyVerified(ids, postId) THEN ids ELSE Append(ids, postId)

\* the while loop of canPostComment: shift the front while it is too old
RECURSIVE ShiftOld(_, _)
ShiftOld(ts, now) ==
  IF Len(ts) > 0 /\ now - ts[1] > WindowMs THEN ShiftOld(Tail(ts), now) ELSE ts

\* a variant that lets one more comment through, to show C8 depends on the
\* comparison with 50
canPostComment_Lax(ts, now) ==
  LET kept == ShiftOld(ts, now)
  IN [timestamps |-> kept, allowed |-> Len(kept) <= MaxComments]

\* moltbookPublisher.canPostComment: the pruned array and the answer
canPostComment(ts, now) ==
  LET kept == ShiftOld(ts, now)
  IN [timestamps |-> kept, allowed |-> Len(kept) < MaxComments]

\* moltbookPublisher.recordComment
recordComment(ts, now) == Append(ts, now)

\* ------------------------------------------------------------- persistence

\* a variant that keeps every record, to show C16 depends on slice(0, 100)
saveVerdict_NoTrim(verdicts, record) == <<record>> \o verdicts

\* the two lines of saveVerdict that build the new log: unshift, slice(0, 100)
saveVerdict(verdicts, record) ==
  LET all == <<record>> \o verdicts
  IN SubSeq(all, 1, IF Len(all) < LogCap THEN Len(all) ELSE LogCap)

\* ------------------------------------------------------------------- feed

\* claimParser.SUBMOLTS, by position
SUBMOLTS == 1..4

\* a variant without the seen set, to show C22 depends on the check of the id
Dedup_NoSeen(posts, all) == all \o posts

RECURSIVE Dedup(_, _)
\* the loop of fetchMoltbookPosts over one fulfilled result
Dedup(posts, all) ==
  IF posts = <<>> THEN all
  ELSE Dedup(Tail(posts),
             IF \E i \in 1..Len(all) : all[i].id = Head(posts).id
             THEN all ELSE Append(all, Head(posts)))

RECURSIVE Collect(_, _, _)
Collect(results, k, all) ==
  IF k > Len(results) THEN all
  ELSE Collect(results, k + 1,
               IF results[k].status = "rejected" THEN all
               ELSE Dedup(results[k].value, all))

\* claimParser.fetchMoltbookPosts after Promise.allSettled: results[k] is
\* [status |-> "fulfilled" or "rejected", value |-> the posts]
fetchMoltbookPosts(results) == Collect(results, 1, <<>>)

\* claimParser.fetchSubmolt for one HTTP response: a non-2xx answer is an
\* empty list, a body that is no JSON rejects
fetchSubmolt(r) ==
  IF r = Rejected THEN [status |-> "rejected", value |-> <<>>]
  ELSE IF ~ResOk(r) THEN [status |-> "fulfilled", value |-> <<>>]
  ELSE IF ~r.json THEN [status |-> "rejected", value |-> <<>>]
  ELSE [status |-> "fulfilled", value |-> r.body]

\* -------------------------------------------------------------------- state

VARIABLES
  mode,               \* "poll", "once" (--once) or "demo" (--demo)
  env,                \* which process.env entries are set
  clock,              \* Date.now(), in ms
  timerInstalled,     \* setInterval(runCycle, INTERVAL_MS) has been called
  verifiedFile,       \* memory/verified-posts.json: the ProcessedSet, in order
  verdictsFile,       \* memory/verdicts.json: the VerdictRecord log, newest first
  bin,                \* the JSONBin mirror's content
  commentTimestamps,  \* the NotificationWindow
  ledger,             \* the transactions sent to VerdictRegistry.storeVerdict
  comments,           \* the comments the feed accepted, in order
  pc,                 \* per invocation of runCycle: the await it is suspended on
  claims,             \* per invocation: the claims of its cycle
  idx,                \* per invocation: the position of the for loop in claims
  result,             \* per invocation: verifyClaim's result for the current claim
  proof,              \* per invocation: storeVerdictOnChain's locals (timestamp, verdictHash, tx)
  txHash,             \* per invocation: runCycle's txHash
  verdictHash,        \* per invocation: runCycle's verdictHash
  commentId,          \* per invocation: runCycle's commentId
  trimmed,            \* per invocation: saveVerdict's trimmed log, awaiting the mirror
  caught,             \* per invocation: the positions whose processing ended in the catch of line 130
  faults,             \* how many failures the environment has produced so far
  lastVerify,         \* the verifyClaim call that returned in the last step: its claim, the responses it received, whether it threw
  arg,                \* the input of the pure function under test
  ret                 \* what the function returned for it

cycleVars == <<pc, claims, idx, result, proof, txHash, verdictHash, commentId, trimmed, caught>>

storeVars == <<verifiedFile, verdictsFile, bin, commentTimestamps, ledger, comments>>

vars == <<mode, env, clock, timerInstalled, faults, lastVerify, storeVars, cycleVars, arg, ret>>

\* the invocations of runCycle: main's, then one per timer tick
Invocations == 1..(MaxTicks + 1)

\* "0x" + "0".repeat(64)
ZERO_HASH == [tx |-> 0]

\* the hash of the k-th transaction sent
TxHashOf(k) == [tx |-> k]

\* a cycle is Running from its start to its completion
Running(w) == pc[w] \notin {"idle", "done"}

\* the claim an invocation is processing
Current(w) == claims[w][idx[w]]

\* the environments a process is started with
EnvAll ==
  [PRIVATE_KEY |-> TRUE, NEXT_PUBLIC_RPC_URL |-> TRUE, VERDICT_REGISTRY_ADDRESS |-> TRUE,
   MOLTBOOK_API_KEY |-> TRUE, OPENWEATHER_API_KEY |-> TRUE, JSONBIN |-> FALSE]

EnvConfigs ==
  { EnvAll,
    [EnvAll EXCEPT !.JSONBIN = TRUE],
    [EnvAll EXCEPT !.PRIVATE_KEY = FALSE],
    [EnvAll EXCEPT !.MOLTBOOK_API_KEY = FALSE] }

\* no response from any source
NoNet == [coingecko |-> Rejected, openweather |-> Rejected, rpc |-> Rejected, llama |-> Rejected]

\* the answers of healthy oracles to one verifyClaim call of the orchestrator
OracleAnswers(claim) ==
  CASE claim.claimType = "price" ->
         { [NoNet EXCEPT !.coingecko = Http(200, Some(185768))] }
    [] claim.claimType = "weather" ->
         { [NoNet EXCEPT !.openweather = Http(200, <<35, 95>>)] }
    [] claim.claimType = "defi" /\ isGas(claim.claimText) ->
         { [NoNet EXCEPT !.rpc = Http(200, Some(2730))] }
    [] OTHER ->
         { [NoNet EXCEPT !.llama = Http(200, <<-4500, -4300>>)] }

\* the answers when a source fails: a non-2xx status, a body that is no
\* JSON, no response at all
OracleFailures(claim) ==
  CASE claim.claimType = "price" ->
         { [NoNet EXCEPT !.coingecko = Http(429, Null)],
           [NoNet EXCEPT !.coingecko = Malformed(200)] }
    [] claim.claimType = "weather" ->
         { [NoNet EXCEPT !.openweather = Http(401, Null)] }
    [] claim.claimType = "defi" /\ isGas(claim.claimText) ->
         { [NoNet EXCEPT !.rpc = Http(429, Null)],
           [NoNet EXCEPT !.llama = Http(200, <<-100, 300>>)],
           NoNet }
    [] OTHER ->
         { [NoNet EXCEPT !.llama = Http(503, Null)] }

\* what one feed answers to fetchSubmolt
FeedResponses ==
  { Http(200, <<FeedPost("p2")>>),
    Http(200, <<FeedPost("p0"), FeedPost("p2")>>),
    Http(502, Null) }

\* what await fetchMoltbookPosts() can return: the posts collected from the
\* four feeds, for every combination of their answers
FetchedPosts ==
  { fetchMoltbookPosts([k \in SUBMOLTS |-> fetchSubmolt(rs[k])]) :
      rs \in [SUBMOLTS -> FeedResponses] }

\* what extractClaims(await fetchMoltbookPosts()) can give a cycle
FetchedClaims == { extractClaims(posts) : posts \in FetchedPosts }

\* the locals of one loop iteration before the iteration starts
NoResult == [threw |-> FALSE, verdict |-> "", confidence |-> Rat(0, 1), source |-> "",
             currentValue |-> Null, details |-> ""]

NoProof == [timestamp |-> 0, verdictHash |-> ZERO_HASH, tx |-> 0]

NoVerify == [called |-> FALSE, claimType |-> "", net |-> NoNet, threw |-> FALSE, verdict |-> ""]

\* the deployments: the polling agent fully configured, and the single cycle
\* of --once and of --demo under every configuration
Deployments ==
  {[mode |-> "poll", env |-> EnvAll]}
    \cup {[mode |-> m, env |-> e] : m \in {"once", "demo"}, e \in EnvConfigs}

\* the module state of a process that has just started
Constructed ==
  /\ clock = 2
  /\ timerInstalled = FALSE
  /\ faults = 0
  /\ verifiedFile = <<>>
  /\ verdictsFile = <<>>
  /\ bin = <<>>
  /\ commentTimestamps = <<>>
  /\ ledger = <<>>
  /\ comments = <<>>
  /\ pc = [w \in Invocations |-> "idle"]
  /\ claims = [w \in Invocations |-> <<>>]
  /\ idx = [w \in Invocations |-> 1]
  /\ result = [w \in Invocations |-> NoResult]
  /\ proof = [w \in Invocations |-> NoProof]
  /\ txHash = [w \in Invocations |-> ZERO_HASH]
  /\ verdictHash = [w \in Invocations |-> ZERO_HASH]
  /\ commentId = [w \in Invocations |-> Null]
  /\ trimmed = [w \in Invocations |-> <<>>]
  /\ caught = [w \in Invocations |-> {}]
  /\ lastVerify = NoVerify

Init ==
  /\ \E d \in Deployments : mode = d.mode /\ env = d.env
  /\ Constructed
  /\ arg = Null
  /\ ret = Null

\* ------------------------------------------------------------------ actions

\* one more failure of the environment fits in the run
MayFail == faults < MaxFaults

\* the environment's choice at one call: it works, or (within the budget) fails
Outcome(ok) ==
  /\ ok \/ MayFail
  /\ faults' = IF ok THEN faults ELSE faults + 1

\* the for loop of runCycle moves on to the next claim; the locals of the
\* iteration that ended go out of scope
NextIteration(w) ==
  /\ idx' = [idx EXCEPT ![w] = idx[w] + 1]
  /\ pc' = [pc EXCEPT ![w] = "check"]
  /\ result' = [result EXCEPT ![w] = NoResult]
  /\ proof' = [proof EXCEPT ![w] = NoProof]
  /\ txHash' = [txHash EXCEPT ![w] = ZERO_HASH]
  /\ verdictHash' = [verdictHash EXCEPT ![w] = ZERO_HASH]
  /\ commentId' = [commentId EXCEPT ![w] = Null]
  /\ trimmed' = [trimmed EXCEPT ![w] = <<>>]

\* a variant in which the catch ends the cycle, to show C5 depends on the
\* catch being inside the loop
CatchClaimError_Abort(w) ==
  /\ caught' = [caught EXCEPT ![w] = @ \cup {idx[w]}]
  /\ pc' = [pc EXCEPT ![w] = "done"]
  /\ UNCHANGED <<idx, result, proof, txHash, verdictHash, commentId, trimmed>>

\* runCycle's catch (err) of line 130: log, then on to the next claim
CatchClaimError(w) ==
  /\ caught' = [caught EXCEPT ![w] = @ \cup {idx[w]}]
  /\ NextIteration(w)

\* runCycle up to its first await
StartCycle(w) ==
  /\ idx' = [idx EXCEPT ![w] = 1]
  /\ IF mode = "demo"
     THEN LET queued == SelectSeq(DEMO_CLAIMS,
                                  LAMBDA c : ~isAlreadyVerified(verifiedFile, c.postId))
          IN /\ claims' = [claims EXCEPT ![w] = queued]
             /\ pc' = [pc EXCEPT ![w] = IF queued = <<>> THEN "done" ELSE "check"]
     ELSE /\ claims' = [claims EXCEPT ![w] = <<>>]
          /\ pc' = [pc EXCEPT ![w] = "fetch"]
  /\ lastVerify' = NoVerify
  /\ UNCHANGED <<result, proof, txHash, verdictHash, commentId, trimmed, caught>>

\* main: await runCycle()
Main ==
  /\ pc[1] = "idle"
  /\ StartCycle(1)
  /\ UNCHANGED <<mode, env, clock, timerInstalled, faults, storeVars, arg, ret>>

\* main, once its first cycle has returned: setInterval(runCycle, INTERVAL_MS)
SetInterval ==
  /\ pc[1] = "done"
  /\ mode = "poll"
  /\ ~timerInstalled
  /\ timerInstalled' = TRUE
  /\ lastVerify' = NoVerify
  /\ UNCHANGED <<mode, env, clock, faults, storeVars, cycleVars, arg, ret>>

\* the interval timer fires: runCycle is called again, whatever the earlier
\* invocations are doing
TimerTick ==
  /\ timerInstalled
  /\ \E w \in Invocations :
       /\ w > 1
       /\ pc[w] = "idle"
       /\ pc[w - 1] # "idle"
       /\ StartCycle(w)
  /\ UNCHANGED <<mode, env, clock, timerInstalled, faults, storeVars, arg, ret>>

\* await fetchMoltbookPosts() returns or throws; then extractClaims
FetchReturns(w) ==
  /\ pc[w] = "fetch"
  /\ IF ~env.MOLTBOOK_API_KEY
     THEN \* "MOLTBOOK_API_KEY not set": caught at line 68, the cycle returns
          /\ pc' = [pc EXCEPT ![w] = "done"]
          /\ UNCHANGED claims
     ELSE \E queued \in FetchedClaims :
            /\ claims' = [claims EXCEPT ![w] = queued]
            /\ pc' = [pc EXCEPT ![w] = IF queued = <<>> THEN "done" ELSE "check"]
  /\ UNCHANGED <<mode, env, clock, timerInstalled, faults, storeVars, arg, ret>>
  /\ UNCHANGED <<idx, result, proof, txHash, verdictHash, commentId, trimmed, caught>>
  /\ lastVerify' = NoVerify

\* the head of the for loop: the end of the cycle, the skip of a claim that
\* is already verified (3a), or the call of verifyClaim (3b)
LoopHead(w) ==
  /\ pc[w] = "check"
  /\ IF idx[w] > Len(claims[w])
     THEN pc' = [pc EXCEPT ![w] = "done"] /\ UNCHANGED idx
     ELSE IF isAlreadyVerified(verifiedFile, Current(w).postId)
     THEN idx' = [idx EXCEPT ![w] = idx[w] + 1] /\ UNCHANGED pc
     ELSE pc' = [pc EXCEPT ![w] = "verify"] /\ UNCHANGED idx
  /\ UNCHANGED <<mode, env, clock, timerInstalled, faults, storeVars, arg, ret>>
  /\ UNCHANGED <<claims, result, proof, txHash, verdictHash, commentId, trimmed, caught>>
  /\ lastVerify' = NoVerify

\* a variant whose catch marks the claim as verified, to show C24 depends on
\* the catch writing nothing
VerifyReturns_MarkOnThrow(w) ==
  /\ pc[w] = "verify"
  /\ \E ok \in BOOLEAN :
       /\ Outcome(ok)
       /\ \E net \in IF ok THEN OracleAnswers(Current(w)) ELSE OracleFailures(Current(w)) :
            LET r == verifyClaim(Current(w), env.OPENWEATHER_API_KEY, net)
            IN /\ lastVerify' = [called |-> TRUE, claimType |-> Current(w).claimType,
                                net |-> net, threw |-> r.threw,
                                verdict |-> IF r.threw THEN "" ELSE r.verdict]
               /\ IF r.threw
                  THEN /\ CatchClaimError(w)
                       /\ verifiedFile' = markAsVerified(verifiedFile, Current(w).postId)
                  ELSE /\ result' = [result EXCEPT ![w] = r]
                       /\ pc' = [pc EXCEPT ![w] = "proof"]
                       /\ UNCHANGED <<idx, proof, txHash, verdictHash, commentId, trimmed, caught>>
                       /\ UNCHANGED verifiedFile
  /\ UNCHANGED <<mode, env, clock, timerInstalled, claims, arg, ret>>
  /\ UNCHANGED <<verdictsFile, bin, commentTimestamps, ledger, comments>>

\* await verifyClaim(claim) returns a result or throws
VerifyReturns(w) ==
  /\ pc[w] = "verify"
  /\ \E ok \in BOOLEAN :
       /\ Outcome(ok)
       /\ \E net \in IF ok THEN OracleAnswers(Current(w)) ELSE OracleFailures(Current(w)) :
            LET r == verifyClaim(Current(w), env.OPENWEATHER_API_KEY, net)
            IN /\ lastVerify' = [called |-> TRUE, claimType |-> Current(w).claimType,
                                net |-> net, threw |-> r.threw,
                                verdict |-> IF r.threw THEN "" ELSE r.verdict]
               /\ IF r.threw
                  THEN CatchClaimError(w)
                  ELSE /\ result' = [result EXCEPT ![w] = r]
                       /\ pc' = [pc EXCEPT ![w] = "proof"]
                       /\ UNCHANGED <<idx, proof, txHash, verdictHash, commentId, trimmed, caught>>
  /\ UNCHANGED <<mode, env, clock, timerInstalled, storeVars, claims, arg, ret>>

\* storeVerdictOnChain up to its first await: the env checks, the timestamp
\* and the digest, then contract.storeVerdict is called
ProofStart(w) ==
  /\ pc[w] = "proof"
  /\ IF env.PRIVATE_KEY /\ env.NEXT_PUBLIC_RPC_URL /\ env.VERDICT_REGISTRY_ADDRESS
     THEN LET timestamp == clock \div 1000
          IN /\ proof' = [proof EXCEPT ![w] =
                  [timestamp |-> timestamp,
                   verdictHash |-> computeVerdictHash(IdBytes(Current(w).postId),
                                     result[w].verdict, result[w].confidence, timestamp),
                   tx |-> 0]]
             /\ pc' = [pc EXCEPT ![w] = "proof_send"]
     ELSE \* throws; runCycle's catch of line 110 keeps the zero hashes
          /\ pc' = [pc EXCEPT ![w] = "notify"]
          /\ UNCHANGED proof
  /\ UNCHANGED <<mode, env, clock, timerInstalled, faults, storeVars, arg, ret>>
  /\ UNCHANGED <<claims, idx, result, txHash, verdictHash, commentId, trimmed, caught>>
  /\ lastVerify' = NoVerify

\* a variant in which a rejected submission ends the claim in the catch of
\* line 130, to show C4 depends on the inner catch
ProofSendReturns_Abort(w) ==
  /\ pc[w] = "proof_send"
  /\ \E sent \in BOOLEAN :
       /\ Outcome(sent)
       /\ IF sent
          THEN /\ ledger' = Append(ledger, [postId |-> Current(w).postId,
                                            verdictHash |-> proof[w].verdictHash,
                                            verdict |-> result[w].verdict,
                                            state |-> "pending"])
               /\ proof' = [proof EXCEPT ![w].tx = Len(ledger) + 1]
               /\ pc' = [pc EXCEPT ![w] = "proof_wait"]
               /\ UNCHANGED <<idx, result, txHash, verdictHash, commentId, trimmed, caught>>
          ELSE /\ CatchClaimError(w)
               /\ UNCHANGED ledger
  /\ UNCHANGED <<mode, env, clock, timerInstalled, arg, ret>>
  /\ UNCHANGED <<verifiedFile, verdictsFile, bin, commentTimestamps, comments>>
  /\ UNCHANGED claims
  /\ lastVerify' = NoVerify

\* a variant that does not await the confirmation (tx.wait() is not called),
\* to show C21 depends on the proof being awaited before the notification
ProofSendReturns_NoWait(w) ==
  /\ pc[w] = "proof_send"
  /\ \E sent \in BOOLEAN :
       /\ Outcome(sent)
       /\ IF sent
          THEN /\ ledger' = Append(ledger, [postId |-> Current(w).postId,
                                            verdictHash |-> proof[w].verdictHash,
                                            verdict |-> result[w].verdict,
                                            state |-> "pending"])
               /\ proof' = [proof EXCEPT ![w].tx = Len(ledger) + 1]
               /\ txHash' = [txHash EXCEPT ![w] = TxHashOf(Len(ledger) + 1)]
               /\ verdictHash' = [verdictHash EXCEPT ![w] = proof[w].verdictHash]
          ELSE UNCHANGED <<ledger, proof, txHash, verdictHash>>
  /\ pc' = [pc EXCEPT ![w] = "notify"]
  /\ UNCHANGED <<mode, env, clock, timerInstalled, arg, ret>>
  /\ UNCHANGED <<verifiedFile, verdictsFile, bin, commentTimestamps, comments>>
  /\ UNCHANGED <<claims, idx, result, commentId, trimmed, caught>>
  /\ lastVerify' = NoVerify

\* await contract.storeVerdict(verdictHash, verdict): the transaction is
\* sent, or the call is rejected (no funds, RPC error)
ProofSendReturns(w) ==
  /\ pc[w] = "proof_send"
  /\ \E sent \in BOOLEAN :
       /\ Outcome(sent)
       /\ IF sent
          THEN /\ ledger' = Append(ledger, [postId |-> Current(w).postId,
                                            verdictHash |-> proof[w].verdictHash,
                                            verdict |-> result[w].verdict,
                                            state |-> "pending"])
               /\ proof' = [proof EXCEPT ![w].tx = Len(ledger) + 1]
               /\ pc' = [pc EXCEPT ![w] = "proof_wait"]
          ELSE /\ pc' = [pc EXCEPT ![w] = "notify"]
               /\ UNCHANGED <<ledger, proof>>
  /\ UNCHANGED <<mode, env, clock, timerInstalled, arg, ret>>
  /\ UNCHANGED <<verifiedFile, verdictsFile, bin, commentTimestamps, comments>>
  /\ UNCHANGED <<claims, idx, result, txHash, verdictHash, commentId, trimmed, caught>>
  /\ lastVerify' = NoVerify

\* await tx.wait(): the receipt, or an error (the transaction reverted, or
\* the wait itself failed while the transaction was mined)
ProofWaitReturns(w) ==
  /\ pc[w] = "proof_wait"
  /\ \E outcome \in {"receipt", "reverted", "lost"} :
       /\ Outcome(outcome = "receipt")
       /\ ledger' = [ledger EXCEPT ![proof[w].tx].state =
                       IF outcome = "reverted" THEN "reverted" ELSE "mined"]
       /\ IF outcome = "receipt"
          THEN /\ txHash' = [txHash EXCEPT ![w] = TxHashOf(proof[w].tx)]
               /\ verdictHash' = [verdictHash EXCEPT ![w] = proof[w].verdictHash]
          ELSE UNCHANGED <<txHash, verdictHash>>
  /\ pc' = [pc EXCEPT ![w] = "notify"]
  /\ UNCHANGED <<mode, env, clock, timerInstalled, arg, ret>>
  /\ UNCHANGED <<verifiedFile, verdictsFile, bin, commentTimestamps, comments>>
  /\ UNCHANGED <<claims, idx, result, proof, commentId, trimmed, caught>>
  /\ lastVerify' = NoVerify

\* a variant in which a full window throws instead of returning null, to
\* show C9 depends on the null return
NotifyStart_Throws(w) ==
  /\ pc[w] = "notify"
  /\ IF ~env.MOLTBOOK_API_KEY
     THEN \* throws; caught at line 120
          /\ pc' = [pc EXCEPT ![w] = "save"]
          /\ UNCHANGED <<commentTimestamps, idx, result, proof, txHash, verdictHash, commentId, trimmed, caught>>
     ELSE LET can == canPostComment(commentTimestamps, clock)
          IN /\ commentTimestamps' = can.timestamps
             /\ IF can.allowed
                THEN /\ pc' = [pc EXCEPT ![w] = "notify_post"]
                     /\ UNCHANGED <<idx, result, proof, txHash, verdictHash, commentId, trimmed, caught>>
                ELSE CatchClaimError(w)
  /\ UNCHANGED <<mode, env, clock, timerInstalled, faults, arg, ret>>
  /\ UNCHANGED <<verifiedFile, verdictsFile, bin, ledger, comments>>
  /\ UNCHANGED claims
  /\ lastVerify' = NoVerify

\* postVerdict up to its await: the API key check, canPostComment, then the
\* POST is sent
NotifyStart(w) ==
  /\ pc[w] = "notify"
  /\ IF ~env.MOLTBOOK_API_KEY
     THEN \* throws; caught at line 120
          /\ pc' = [pc EXCEPT ![w] = "save"]
          /\ UNCHANGED commentTimestamps
     ELSE LET can == canPostComment(commentTimestamps, clock)
          IN /\ commentTimestamps' = can.timestamps
             /\ pc' = [pc EXCEPT ![w] = IF can.allowed THEN "notify_post" ELSE "save"]
  /\ UNCHANGED <<mode, env, clock, timerInstalled, faults, arg, ret>>
  /\ UNCHANGED <<verifiedFile, verdictsFile, bin, ledger, comments>>
  /\ UNCHANGED <<claims, idx, result, proof, txHash, verdictHash, commentId, trimmed, caught>>
  /\ lastVerify' = NoVerify

\* await fetch(POST comment) returns: a 2xx answer is recorded in the window
\* and gives the comment id, any other outcome throws
NotifyReturns(w) ==
  /\ pc[w] = "notify_post"
  /\ \E ok \in BOOLEAN :
       /\ Outcome(ok)
       /\ IF ok
          THEN /\ commentTimestamps' = recordComment(commentTimestamps, clock)
               /\ comments' = Append(comments, [postId |-> Current(w).postId,
                                                proofTx |-> txHash[w], at |-> clock])
               /\ commentId' = [commentId EXCEPT ![w] = Some(Len(comments) + 1)]
          ELSE UNCHANGED <<commentTimestamps, comments, commentId>>
  /\ pc' = [pc EXCEPT ![w] = "save"]
  /\ UNCHANGED <<mode, env, clock, timerInstalled, arg, ret>>
  /\ UNCHANGED <<verifiedFile, verdictsFile, bin, ledger>>
  /\ UNCHANGED <<claims, idx, result, proof, txHash, verdictHash, trimmed, caught>>
  /\ lastVerify' = NoVerify

\* saveVerdict up to its await: the record is put in front of the log and
\* the file is written, or the write throws
SaveStart(w) ==
  /\ pc[w] = "save"
  /\ \E written \in BOOLEAN :
       /\ Outcome(written)
       /\ IF written
          THEN LET record == [postId |-> Current(w).postId,
                              agentName |-> Current(w).agentName,
                              claimText |-> Current(w).claimText,
                              verdict |-> result[w].verdict,
                              confidence |-> result[w].confidence,
                              source |-> result[w].source,
                              currentValue |-> result[w].currentValue,
                              txHash |-> txHash[w],
                              verdictHash |-> verdictHash[w],
                              timestamp |-> clock,
                              commentId |-> commentId[w]]
                   log == saveVerdict(verdictsFile, record)
               IN /\ verdictsFile' = log
                  /\ trimmed' = [trimmed EXCEPT ![w] = log]
                  /\ pc' = [pc EXCEPT ![w] = "save_sync"]
                  /\ UNCHANGED <<idx, result, proof, txHash, verdictHash, commentId, caught>>
          ELSE /\ CatchClaimError(w)
               /\ UNCHANGED verdictsFile
  /\ UNCHANGED <<mode, env, clock, timerInstalled, arg, ret>>
  /\ UNCHANGED <<verifiedFile, bin, commentTimestamps, ledger, comments>>
  /\ UNCHANGED <<claims>>
  /\ lastVerify' = NoVerify

\* await writeBin(trimmed) settles (its failure is swallowed) and saveVerdict
\* returns; then markAsVerified writes the processed file, or the write throws
SaveReturns(w) ==
  /\ pc[w] = "save_sync"
  /\ \E synced \in (IF env.JSONBIN THEN BOOLEAN ELSE {FALSE}), written \in BOOLEAN :
       LET failed == (IF env.JSONBIN /\ ~synced THEN 1 ELSE 0) + (IF written THEN 0 ELSE 1)
       IN /\ faults + failed <= MaxFaults
          /\ faults' = faults + failed
          /\ bin' = IF synced THEN trimmed[w] ELSE bin
          /\ IF written
             THEN /\ verifiedFile' = markAsVerified(verifiedFile, Current(w).postId)
                  /\ pc' = [pc EXCEPT ![w] = "sleep"]
                  /\ UNCHANGED <<idx, result, proof, txHash, verdictHash, commentId, trimmed, caught>>
             ELSE /\ ~isAlreadyVerified(verifiedFile, Current(w).postId)
                  /\ CatchClaimError(w)
                  /\ UNCHANGED verifiedFile
  /\ UNCHANGED <<mode, env, clock, timerInstalled, arg, ret>>
  /\ UNCHANGED <<verdictsFile, commentTimestamps, ledger, comments>>
  /\ UNCHANGED <<claims>>
  /\ lastVerify' = NoVerify

\* await sleep(2500) returns: the iteration ends
SleepReturns(w) ==
  /\ pc[w] = "sleep"
  /\ NextIteration(w)
  /\ UNCHANGED <<mode, env, clock, timerInstalled, faults, storeVars, arg, ret>>
  /\ UNCHANGED <<claims, caught>>
  /\ lastVerify' = NoVerify

\* time passes: the length of the rate window
AdvanceClock ==
  /\ clock < MaxHours * WindowMs
  /\ clock' = clock + WindowMs
  /\ lastVerify' = NoVerify
  /\ UNCHANGED <<mode, env, timerInstalled, faults, storeVars, cycleVars, arg, ret>>

\* one invocation of runCycle resumes at the await it is suspended on
CycleStep(w) ==
  \/ FetchReturns(w)
  \/ LoopHead(w)
  \/ VerifyReturns(w)
  \/ ProofStart(w)
  \/ ProofSendReturns(w)
  \/ ProofWaitReturns(w)
  \/ NotifyStart(w)
  \/ NotifyReturns(w)
  \/ SaveStart(w)
  \/ SaveReturns(w)
  \/ SleepReturns(w)

Next ==
  \/ Main
  \/ SetInterval
  \/ TimerTick
  \/ \E w \in Invocations : CycleStep(w)
  \/ AdvanceClock

Spec == Init /\ [][Next]_vars

\* ------------------------------------------- the agent with a used rate window

\* the window after n notifications of earlier cycles: the oldest at 1 ms,
\* the others at 2 ms
WarmWindow(n) == [i \in 1..n |-> IF i = 1 THEN 1 ELSE 2]

\* the polling agent after its first cycles: main's runCycle has returned,
\* the timer is installed, and 49 or 50 verdicts on other posts are in the
\* window (the files and transactions of those posts are left out)
InitWarm ==
  /\ mode = "poll"
  /\ env = EnvAll
  /\ clock = 2
  /\ timerInstalled = TRUE
  /\ faults = 0
  /\ verifiedFile = <<>>
  /\ verdictsFile = <<>>
  /\ bin = <<>>
  /\ \E n \in {MaxComments - 1, MaxComments} :
       /\ commentTimestamps = WarmWindow(n)
       /\ comments = [i \in 1..n |-> [postId |-> "earlier", proofTx |-> ZERO_HASH,
                                       at |-> WarmWindow(n)[i]]]
  /\ ledger = <<>>
  /\ pc = [w \in Invocations |-> IF w = 1 THEN "done" ELSE "idle"]
  /\ claims = [w \in Invocations |-> <<>>]
  /\ idx = [w \in Invocations |-> 1]
  /\ result = [w \in Invocations |-> NoResult]
  /\ proof = [w \in Invocations |-> NoProof]
  /\ txHash = [w \in Invocations |-> ZERO_HASH]
  /\ verdictHash = [w \in Invocations |-> ZERO_HASH]
  /\ commentId = [w \in Invocations |-> Null]
  /\ trimmed = [w \in Invocations |-> <<>>]
  /\ caught = [w \in Invocations |-> {}]
  /\ lastVerify = NoVerify
  /\ arg = Null
  /\ ret = Null

NextWarm ==
  \/ TimerTick
  \/ \E w \in Invocations : CycleStep(w)
  \/ AdvanceClock

SpecWarm == InitWarm /\ [][NextWarm]_vars

\* ------------------------------------------------ the two verdict hashers

\* sample confidences: integers, fractions on both sides of a half, halves
HashConfidences ==
  { Rat(0, 1), Rat(55, 1), Rat(88, 1), Rat(99, 1), Rat(876, 10), Rat(874, 10),
    Rat(175, 2), Rat(4273, 50), Rat(1, 4), Rat(3, 4) }

\* the tuples the hashers are applied to: <<postId, verdict, confidence, timestamp>>
HashInputs ==
  {"p1", "p2", "demo-001"} \X {"TRUE", "FALSE", "UNVERIFIABLE"}
    \X HashConfidences \X {0, 3600, 1762156800}

InitHash ==
  /\ mode = "once"
  /\ env = EnvAll
  /\ Constructed
  /\ arg \in HashInputs
  /\ ret = Null

\* both implementations are applied to the same tuple
ApplyHashers ==
  /\ ret = Null
  /\ ret' = [agent    |-> computeVerdictHash(IdBytes(arg[1]), arg[2], arg[3], arg[4]),
             workflow |-> workflowComputeVerdictHash(IdBytes(arg[1]), arg[2], arg[3], arg[4])]
  /\ UNCHANGED <<mode, env, clock, timerInstalled, faults, lastVerify, storeVars, cycleVars, arg>>

NextHash == ApplyHashers

SpecHash == InitHash /\ [][NextHash]_vars

\* ------------------------------------------------------------ the claim parser

\* price texts put together from an asset, a verb, an amount and what follows
\* the amount
PriceTexts ==
  { a \o v \o n \o t :
      a \in {"BTC", "eth/USD", "DOGE"},
      v \in {" above ", " will exceed ", " below "},
      n \in {"$50", "$3,500", ",$5"},
      t \in {"", "k", "K by May", "kk"} }

\* the demo texts, the feed's texts, and texts that pass a gate and fail its
\* pattern or the reverse
OtherTexts ==
  { TextEth, TextEthFeed, TextGas, TextChat, TextWeather, TextTvl,
    "ETH above $2mm", "ETH over $1.5M", TextRev,
    "60% chance of rain tomorrow", "rain probability 80%", "humidity 40%",
    "TVL dropped 20 in 6h", "tvl fell by 12.5 %", "price is up" }

\* the posts parseClaim is applied to
ParseInputs ==
  { [id |-> "p1", author |-> au, content |-> c] :
      au \in {Author(Some("alice"), Some("al")), Author(Null, Some("al")), Author(Null, Null)},
      c \in PriceTexts \cup OtherTexts }

InitParse ==
  /\ mode = "once"
  /\ env = EnvAll
  /\ Constructed
  /\ arg \in ParseInputs
  /\ ret = Null

\* parseClaim is applied to the post, and extractClaims to the feed that
\* holds only this post
ApplyParse ==
  /\ ret = Null
  /\ ret' = [claim |-> parseClaim(arg), extracted |-> extractClaims(<<arg>>)]
  /\ UNCHANGED <<mode, env, clock, timerInstalled, faults, lastVerify, storeVars, cycleVars, arg>>

NextParse == ApplyParse

SpecParse == InitParse /\ [][NextParse]_vars

\* ---------------------------------------------------------- the oracle verifier

\* a ParsedClaim given to verifyClaim
ClaimOf(claimType, claimText, extractedValue, asset) ==
  [postId |-> "p1", agentName |-> "alice", claimType |-> claimType, claimText |-> claimText,
   extractedValue |-> extractedValue, asset |-> asset]

\* observed spot prices, in hundredths: above, at and below the thresholds,
\* on both sides of the 20% gap
SpotPrices == {100, 185768, 200000, 279999, 280000, 340000, 350000, 420000, 420001, 500000, 1000000}

\* observed gas prices in hundredths of a gwei
GasPrices == {1000, 2000, 2400, 2401, 2730, 4000, 100000}

\* what DeFi Llama answers when a gas claim is verified: mean changes of
\* -44% and +1%, a non-2xx status, no response
TvlAnswers == { Http(200, <<-4500, -4300>>), Http(200, <<-100, 300>>), Http(503, Null), Rejected }

\* verifyClaim's inputs: the claim, whether OPENWEATHER_API_KEY is set, and
\* what each source answers
VerifyInputs ==
  { [claim |-> ClaimOf("price", t, Some(v), Some("ETH")), hasKey |-> TRUE, net |-> n] :
      t \in {TextEth, TextRev}, v \in {350000, 100000},
      n \in { [NoNet EXCEPT !.coingecko = Http(200, Some(p))] : p \in SpotPrices }
              \cup { [NoNet EXCEPT !.coingecko = Http(200, Null)],
                     [NoNet EXCEPT !.coingecko = Http(429, Null)],
                     [NoNet EXCEPT !.coingecko = Malformed(200)], NoNet } }
  \cup
  { [claim |-> ClaimOf("price", TextEth, Some(350000), a), hasKey |-> TRUE, net |-> NoNet] :
      a \in {Null, Some("XRP")} }
  \cup
  { [claim |-> ClaimOf("weather", TextWeather, Some(v), Null), hasKey |-> k,
     net |-> [NoNet EXCEPT !.openweather = r]] :
      v \in {7000, 3000}, k \in BOOLEAN,
      r \in { Http(200, <<35, 95>>), Http(200, <<60>>), Http(200, <<5>>), Http(200, <<>>),
              Http(401, Null) } }
  \cup
  { [claim |-> ClaimOf("defi", TextGas, Some(v), Null), hasKey |-> TRUE,
     net |-> [NoNet EXCEPT !.rpc = r, !.llama = l]] :
      v \in {2000, 5000},
      r \in { Http(200, Some(g)) : g \in GasPrices }
             \cup { Http(200, Null), Http(429, Null), Malformed(200), Malformed(502), Rejected },
      l \in TvlAnswers }
  \cup
  { [claim |-> ClaimOf("defi", TextTvl, Some(v), Null), hasKey |-> TRUE,
     net |-> [NoNet EXCEPT !.llama = r]] :
      v \in {0, 1000, 2000, 2001, 5000},
      r \in { Http(200, <<-4500, -4300>>), Http(200, <<-100, 300>>), Http(200, <<-2500>>),
              Http(200, <<-7100, -7000>>), Http(200, <<>>), Http(503, Null),
              Http(200, <<-4000>>), Http(200, <<-4001, -4000>>), Http(200, <<0>>),
              Http(200, <<2500, 3500>>) } }
  \cup
  { [claim |-> ClaimOf("unknown", TextChat, Null, Null), hasKey |-> TRUE, net |-> NoNet] }

InitVerify ==
  /\ mode = "once"
  /\ env = EnvAll
  /\ Constructed
  /\ arg \in VerifyInputs
  /\ ret = Null

\* verifyClaim is applied to the claim
ApplyVerify ==
  /\ ret = Null
  /\ ret' = verifyClaim(arg.claim, arg.hasKey, arg.net)
  /\ UNCHANGED <<mode, env, clock, timerInstalled, faults, lastVerify, storeVars, cycleVars, arg>>

NextVerify == ApplyVerify

SpecVerify == InitVerify /\ [][NextVerify]_vars

\* ------------------------------------------------ the agent with a long log

\* the record an earlier cycle persisted for its i-th claim
EarlierRecord(i) ==
  [postId |-> "e" \o ToString(i), agentName |-> "earlier", claimText |-> TextGas,
   verdict |-> "UNVERIFIABLE", confidence |-> Rat(65, 1), source |-> "Ethereum RPC",
   currentValue |-> Some(2400), txHash |-> ZERO_HASH, verdictHash |-> ZERO_HASH,
   timestamp |-> 1, commentId |-> Null]

\* the log after n claims of earlier cycles, newest first
EarlierLog(n) == [i \in 1..n |-> EarlierRecord(n + 1 - i)]

\* a process started on the files of earlier runs: the log holds 98, 99 or
\* 100 records and the processed file their ids; one cycle (--once or --demo)
InitLog ==
  /\ mode \in {"once", "demo"}
  /\ env \in {EnvAll, [EnvAll EXCEPT !.JSONBIN = TRUE]}
  /\ clock = 2
  /\ timerInstalled = FALSE
  /\ faults = 0
  /\ \E n \in {LogCap - 2, LogCap - 1, LogCap} :
       /\ verdictsFile = EarlierLog(n)
       /\ verifiedFile = [i \in 1..n |-> "e" \o ToString(i)]
  /\ bin = <<>>
  /\ commentTimestamps = <<>>
  /\ ledger = <<>>
  /\ comments = <<>>
  /\ pc = [w \in Invocations |-> "idle"]
  /\ claims = [w \in Invocations |-> <<>>]
  /\ idx = [w \in Invocations |-> 1]
  /\ result = [w \in Invocations |-> NoResult]
  /\ proof = [w \in Invocations |-> NoProof]
  /\ txHash = [w \in Invocations |-> ZERO_HASH]
  /\ verdictHash = [w \in Invocations |-> ZERO_HASH]
  /\ commentId = [w \in Invocations |-> Null]
  /\ trimmed = [w \in Invocations |-> <<>>]
  /\ caught = [w \in Invocations |-> {}]
  /\ lastVerify = NoVerify
  /\ arg = Null
  /\ ret = Null

NextLog ==
  \/ Main
  \/ CycleStep(1)

SpecLog == InitLog /\ [][NextLog]_vars

\* ------------------------------------------------------- one cycle, with progress

\* one process that runs a single cycle (--once or --demo)
InitLive ==
  /\ mode \in {"once", "demo"}
  /\ env \in EnvConfigs
  /\ Constructed
  /\ arg = Null
  /\ ret = Null

NextLive ==
  \/ Main
  \/ CycleStep(1)

\* the steps the process takes whenever it can: the code between two awaits
\* runs when the awaited promise settles, and fetch, the file writes, the
\* sleep timer and the sending of the transaction settle (with a response or
\* an error).  tx.wait() settles only when the transaction is mined or
\* replaced; storeVerdictOnChain passes it no timeout and nothing else bounds
\* the wait, so no progress is assumed for ProofWaitReturns.
Settling(w) ==
  \/ FetchReturns(w)
  \/ LoopHead(w)
  \/ VerifyReturns(w)
  \/ ProofStart(w)
  \/ ProofSendReturns(w)
  \/ NotifyStart(w)
  \/ NotifyReturns(w)
  \/ SaveStart(w)
  \/ SaveReturns(w)
  \/ SleepReturns(w)

SpecLive ==
  /\ InitLive
  /\ [][NextLive]_vars
  /\ WF_vars(Main)
  /\ WF_vars(Settling(1))

\* ------------------------------------------------------------- the feed fetch

\* the same post id met in another feed, under another author
Crosspost(id) == [FeedPost(id) EXCEPT !.author = Author(Null, Some("mirror"))]

\* what one feed answers: posts, a non-2xx status, a body that is no JSON,
\* no response
FetchAnswers ==
  { Http(200, <<FeedPost("p0"), FeedPost("p2")>>),
    Http(200, <<Crosspost("p2"), FeedPost("p1"), Crosspost("p1")>>),
    Http(502, Null),
    Malformed(200),
    Rejected }

\* fetchMoltbookPosts' inputs: whether MOLTBOOK_API_KEY is set and the answer
\* of each of the four feeds
FetchInputs ==
  { [hasKey |-> k, rs |-> rs] : k \in BOOLEAN, rs \in [SUBMOLTS -> FetchAnswers] }

InitFetch ==
  /\ mode = "once"
  /\ env = EnvAll
  /\ Constructed
  /\ arg \in FetchInputs
  /\ ret = Null

\* fetchMoltbookPosts is called: it throws without the key, else it collects
\* the settled per-feed fetches
ApplyFetch ==
  /\ ret = Null
  /\ ret' = IF ~arg.hasKey THEN Thrown
            ELSE [threw |-> FALSE,
                  posts |-> fetchMoltbookPosts([k \in SUBMOLTS |-> fetchSubmolt(arg.rs[k])])]
  /\ UNCHANGED <<mode, env, clock, timerInstalled, faults, lastVerify, storeVars, cycleVars, arg>>

NextFetch == ApplyFetch

SpecFetch == InitFetch /\ [][NextFetch]_vars

\* ------------------------------------------------------- the packed pre-image

\* claim ids as UTF-8 bytes: "p1", then "p1" followed by "UN", by "F", by
\* "T" and by "FALSE", the id "TRUE", and the empty id
PackIds ==
  { <<112, 49>>,
    <<112, 49, 85, 78>>,
    <<112, 49, 70>>,
    <<112, 49, 84>>,
    <<112, 49, 70, 65, 76, 83, 69>>,
    <<84, 82, 85, 69>>,
    <<>> }

\* the tuples that are packed: <<claimId, verdict, confidence, timestamp>>
\* with an integer confidence
PackInputs ==
  PackIds \X {"TRUE", "FALSE", "UNVERIFIABLE"} \X {0, 1, 99, 256} \X {0, 1, 256, 1762156800}

InitPack ==
  /\ mode = "once"
  /\ env = EnvAll
  /\ Constructed
  /\ arg \in PackInputs
  /\ ret = Null

\* both hashers are applied to the tuple; a digest stands for its pre-image
ApplyPack ==
  /\ ret = Null
  /\ ret' = [agent    |-> computeVerdictHash(arg[1], arg[2], Rat(arg[3], 1), arg[4]),
             workflow |-> workflowComputeVerdictHash(arg[1], arg[2], Rat(arg[3], 1), arg[4])]
  /\ UNCHANGED <<mode, env, clock, timerInstalled, faults, lastVerify, storeVars, cycleVars, arg>>

NextPack == ApplyPack

SpecPack == InitPack /\ [][NextPack]_vars

\* ------------------------------------------------------------------ claims

\* the ids in the ProcessedSet
Processed == {verifiedFile[i] : i \in DOMAIN verifiedFile}

\* the transactions sent for a claim id, and the comments posted for it
TxsFor(id) == {i \in DOMAIN ledger : ledger[i].postId = id}
CommentsFor(id) == {i \in DOMAIN comments : comments[i].postId = id}

ClaimIds == {"p2", "demo-001", "demo-002", "demo-003"}

\* C1: a claim whose id is in the ProcessedSet when the loop of runCycle
\* reaches it is skipped before verification: the step only moves the loop
\* on, verifyClaim is not called, no transaction, no comment, no record.
C1_ProcessedIsSkipped ==
  [][\A w \in Invocations :
       ( /\ pc[w] = "check"
         /\ idx[w] <= Len(claims[w])
         /\ claims[w][idx[w]].postId \in Processed
         /\ <<pc[w], idx[w]>>' # <<pc[w], idx[w]>> )
       => /\ pc'[w] = "check"
          /\ idx'[w] = idx[w] + 1
          /\ ~lastVerify'.called
          /\ UNCHANGED <<ledger, comments, verdictsFile, verifiedFile>>]_vars

\* C1 happens: main's cycle processed the claim without an error, a later
\* cycle met the same claim and ended, and the log holds the one record
C1_Witness ==
  \E w \in Invocations :
    /\ w > 1
    /\ pc[1] = "done" /\ claims[1] # <<>> /\ caught[1] = {}
    /\ pc[w] = "done" /\ claims[w] = claims[1] /\ caught[w] = {}
    /\ Len(verdictsFile) = 1

\* C2: for every claim id, over all cycles and whatever steps fail, at most
\* one transaction is sent to the ledger and at most one comment is posted
\* (stated for main's cycle and the first cycle of the timer, which follow
\* one another).
C2_AtMostOnce ==
  (\A w \in Invocations : w > 2 => pc[w] = "idle")
    => \A id \in ClaimIds :
         /\ Cardinality(TxsFor(id)) <= 1
         /\ Cardinality(CommentsFor(id)) <= 1

\* C3: at most one invocation of runCycle is Running at a time.
C3_OneCycleRunning ==
  Cardinality({w \in Invocations : Running(w)}) <= 1

\* C4: when storeVerdictOnChain fails for a claim (a credential is missing,
\* the submission is rejected, the confirmation fails), the claim goes on to
\* the notification with its result untouched and the zero transaction id,
\* and the record that is then persisted carries the zero transaction id and
\* the verdict and confidence of the verification result.
C4_ProofFailureNonBlocking ==
  [][\A w \in Invocations :
       /\ ( /\ pc[w] \in {"proof", "proof_send", "proof_wait"}
            /\ pc'[w] \notin {"proof", "proof_send", "proof_wait"}
            /\ txHash'[w] = ZERO_HASH )
          => /\ pc'[w] = "notify"
             /\ idx'[w] = idx[w]
             /\ result'[w] = result[w]
             /\ verdictHash'[w] = ZERO_HASH
       /\ ( /\ pc[w] \in {"notify", "notify_post"}
            /\ pc'[w] # pc[w] )
          => /\ pc'[w] \in {"notify_post", "save"}
             /\ txHash'[w] = txHash[w]
             /\ result'[w] = result[w]
       /\ ( /\ pc[w] = "save"
            /\ pc'[w] = "save_sync"
            /\ txHash[w] = ZERO_HASH )
          => /\ Len(verdictsFile') >= 1
             /\ verdictsFile'[1].postId = claims[w][idx[w]].postId
             /\ verdictsFile'[1].txHash = ZERO_HASH
             /\ verdictsFile'[1].verdict = result[w].verdict
             /\ verdictsFile'[1].confidence = result[w].confidence]_vars

\* C4 happens: a transaction reverted, the comment was posted all the same
\* and the record with the zero transaction id is in the log
C4_Witness ==
  \E i \in DOMAIN verdictsFile, j \in DOMAIN ledger :
    /\ ledger[j].postId = verdictsFile[i].postId
    /\ ledger[j].state = "reverted"
    /\ Len(ledger) = 1
    /\ verdictsFile[i].txHash = ZERO_HASH
    /\ verdictsFile[i].commentId # Null

\* C5: an exception thrown while one claim is processed (by verifyClaim, by
\* saveVerdict, by markAsVerified) is caught for that claim: the loop moves
\* to the next claim, claims are visited in order one by one, and the cycle
\* ends only after the last claim of its list.
C5_ErrorsCaughtPerClaim ==
  [][\A w \in Invocations :
       /\ ( \/ pc[w] = "verify" /\ pc'[w] # "verify" /\ pc'[w] # "proof"
            \/ pc[w] = "save" /\ pc'[w] # "save" /\ pc'[w] # "save_sync"
            \/ pc[w] = "save_sync" /\ pc'[w] # "save_sync" /\ pc'[w] # "sleep" )
          => /\ pc'[w] = "check"
             /\ idx'[w] = idx[w] + 1
             /\ caught'[w] = caught[w] \cup {idx[w]}
       /\ claims[w] # <<>> => claims'[w] = claims[w]
       /\ idx'[w] \in {idx[w], idx[w] + 1}
       /\ (pc[w] # "done" /\ pc'[w] = "done" /\ claims'[w] # <<>>)
          => idx'[w] = Len(claims'[w]) + 1]_vars

\* C5 happens: a cycle has ended although one of its claims ended in the
\* catch, and a later claim of its list has its record in the log
C5_Witness ==
  \E w \in Invocations :
    /\ pc[w] = "done"
    /\ \E i \in caught[w], j \in DOMAIN claims[w] :
         /\ j > i
         /\ \E k \in DOMAIN verdictsFile : verdictsFile[k].postId = claims[w][j].postId

\* every source of the call answered with a non-2xx status or not at all
AllSourcesFailed(net) ==
  \A f \in {"coingecko", "openweather", "rpc", "llama"} :
    net[f] = Rejected \/ ~ResOk(net[f])

\* C6: when the oracle answers a verifyClaim call with a non-2xx status or
\* the request fails in transport, the call does not throw and its verdict
\* is UNVERIFIABLE, for every claim type.
C6_OracleFailureIsUnverifiable ==
  (lastVerify.called /\ AllSourcesFailed(lastVerify.net))
    => (~lastVerify.threw /\ lastVerify.verdict = "UNVERIFIABLE")

\* C7: the comments posted inside any window of 3,600,000 ms that ends with
\* a posted comment are at most 50.
C7_AtMostFiftyPerWindow ==
  \A i \in DOMAIN comments :
    Cardinality({j \in DOMAIN comments :
                   /\ comments[j].at <= comments[i].at
                   /\ comments[i].at - comments[j].at < WindowMs}) <= MaxComments

\* C8: a check of the window keeps exactly the entries that are at most
\* 3,600,000 ms old, dropping the others from the front; it refuses the
\* comment when 50 entries are left, and with 50 entries recorded it allows
\* the comment once the oldest is more than 3,600,000 ms old.
C8_WindowCheck ==
  [][\A w \in Invocations :
       (pc[w] = "notify" /\ pc'[w] # "notify")
       => LET fresh == SelectSeq(commentTimestamps, LAMBDA t : clock - t <= WindowMs)
              stale == Len(commentTimestamps) - Len(fresh)
          IN /\ commentTimestamps' = fresh
             /\ fresh = SubSeq(commentTimestamps, stale + 1, Len(commentTimestamps))
             /\ Len(fresh) >= MaxComments => pc'[w] = "save"
             /\ ( /\ Len(commentTimestamps) = MaxComments
                  /\ clock - commentTimestamps[1] > WindowMs )
                => pc'[w] = "notify_post"]_vars

\* C8 happens: 50 comments were recorded, the hour has passed, the check
\* dropped the one entry that was too old and let the comment through
C8_Witness ==
  \E w \in Invocations :
    /\ pc[w] = "notify_post"
    /\ clock > WindowMs
    /\ Len(comments) = MaxComments
    /\ Len(commentTimestamps) = MaxComments - 1
    /\ commentTimestamps[1] = 2

\* C9: when the window is full as postVerdict is called, the claim has been
\* verified and its proof attempted, no comment is posted and no comment id
\* is set, and the claim goes on to be saved with no comment id and to be
\* marked as verified.
C9_RateLimitSkipsOnlyThePost ==
  [][\A w \in Invocations :
       /\ ( /\ pc[w] = "notify"
            /\ pc'[w] # "notify"
            /\ Cardinality({i \in DOMAIN commentTimestamps :
                              clock - commentTimestamps[i] <= WindowMs}) >= MaxComments )
          => /\ result[w].verdict \in {"TRUE", "FALSE", "UNVERIFIABLE"}
             /\ pc'[w] = "save"
             /\ idx'[w] = idx[w]
             /\ commentId'[w] = Null
             /\ UNCHANGED <<comments, result, txHash, verdictHash, ledger>>
       /\ (pc[w] = "save" /\ pc'[w] = "save_sync")
          => /\ verdictsFile'[1].postId = claims[w][idx[w]].postId
             /\ verdictsFile'[1].commentId = commentId[w]
             /\ verdictsFile'[1].verdictHash = verdictHash[w]
       /\ (pc[w] = "save_sync" /\ pc'[w] = "sleep")
          => \E i \in DOMAIN verifiedFile' : verifiedFile'[i] = claims[w][idx[w]].postId]_vars

\* C9 happens: nothing failed, the window held 50 comments, and a claim
\* with a mined proof is in the log without a comment id and is marked
C9_Witness ==
  \E i \in DOMAIN verdictsFile :
    /\ faults = 0
    /\ Len(comments) = MaxComments
    /\ verdictsFile[i].commentId = Null
    /\ verdictsFile[i].txHash # ZERO_HASH
    /\ verdictsFile[i].postId \in Processed

\* the integer nearest to the rational q (halves go up)
Nearest(q) == CHOOSE n \in 0..100 : 2 * n * q[2] - q[2] <= 2 * q[1] /\ 2 * q[1] < 2 * n * q[2] + q[2]

\* C10: for every tuple, the agent's and the workflow's computeVerdictHash
\* give the same digest, and it is the digest of the packed encoding of the
\* tuple with the confidence rounded to the nearest integer.
C10_HashersAgree ==
  ret # Null =>
    /\ ret.agent = ret.workflow
    /\ ret.agent = keccak256(IdBytes(arg[1]) \o VerdictBytes(arg[2])
                               \o Uint256(Nearest(arg[3])) \o Uint256(arg[4]))

\* C10 happens: confidence 87.6 has been hashed, to the digest of 88
C10_Witness ==
  /\ ret # Null
  /\ arg[3] = Rat(876, 10)
  /\ ret.workflow = keccak256(encodePacked(IdBytes(arg[1]), arg[2], 88, arg[4]))

\* C11: every result that verifyClaim returns, for every claim type and every
\* observed value, has a confidence that is an integer from 0 to 99.
C11_ConfidenceIsInteger0To99 ==
  (ret # Null /\ ~ret.threw)
    => /\ ret.confidence[2] = 1
       /\ 0 <= ret.confidence[1]
       /\ ret.confidence[1] <= 99

\* the spot price the source reported for the price claim under test
Priced ==
  /\ ret # Null
  /\ arg.claim.claimType = "price"
  /\ arg.claim.claimText = TextEth
  /\ arg.claim.asset = Some("ETH")
  /\ arg.net.coingecko \in {Http(200, Some(p)) : p \in SpotPrices}

\* C12: for the exceed-style price claim, the verdict is TRUE when the
\* observed price is at least the threshold, otherwise FALSE when the gap is
\* more than 20% of the threshold, otherwise UNVERIFIABLE; 5000 against 3500
\* is TRUE with confidence at least 90, 2000 against 3500 is FALSE with
\* confidence at least 85, 3400 against 3500 is UNVERIFIABLE.
C12_ExceedVerdict ==
  Priced =>
    LET observed  == arg.net.coingecko.body[1]
        threshold == arg.claim.extractedValue[1]
    IN /\ ~ret.threw
       /\ ret.verdict = IF observed >= threshold THEN "TRUE"
                        ELSE IF 5 * (threshold - observed) > threshold THEN "FALSE"
                        ELSE "UNVERIFIABLE"
       /\ (observed = 500000 /\ threshold = 350000)
            => ret.verdict = "TRUE" /\ RatLeq(Rat(90, 1), ret.confidence)
       /\ (observed = 200000 /\ threshold = 350000)
            => ret.verdict = "FALSE" /\ RatLeq(Rat(85, 1), ret.confidence)
       /\ (observed = 340000 /\ threshold = 350000) => ret.verdict = "UNVERIFIABLE"

\* C12 happens: 2000 against 3500 has been judged, FALSE with confidence 94
C12_Witness ==
  /\ Priced
  /\ arg.net.coingecko.body[1] = 200000
  /\ arg.claim.extractedValue[1] = 350000
  /\ ret.verdict = "FALSE"
  /\ ret.confidence = Rat(94, 1)

\* the seconds storeVerdictOnChain can read from the clock
ProofTimestamps == {(2 + h * WindowMs) \div 1000 : h \in 0..MaxHours}

\* C13: the claim "ETH will exceed $3,500 by end of week" with an observed
\* spot price of 1857.68 is judged FALSE with confidence 99 (as the workflow's
\* evaluateClaim judges it), and its persisted record carries that verdict
\* and confidence and, when the proof returned a transaction id, that id and
\* the hash over (claimId, "FALSE", 99, ts).
C13_DemoPriceRecord ==
  /\ evaluateClaim(185768, 350000).verdict = "FALSE"
  /\ evaluateClaim(185768, 350000).confidence = Rat(99, 1)
  /\ \A i \in DOMAIN verdictsFile :
       LET record == verdictsFile[i]
       IN (record.claimText = TextEth /\ record.currentValue = Some(185768))
            => /\ record.verdict = "FALSE"
               /\ record.confidence = Rat(99, 1)
               /\ record.txHash # ZERO_HASH
                    => /\ record.txHash.tx \in DOMAIN ledger
                       /\ ledger[record.txHash.tx].postId = record.postId
                       /\ ledger[record.txHash.tx].verdictHash = record.verdictHash
                       /\ \E ts \in ProofTimestamps :
                            record.verdictHash =
                              computeVerdictHash(IdBytes(record.postId), "FALSE", Rat(99, 1), ts)

\* C14: every ParsedClaim that parseClaim returns has claimType unknown if
\* and only if its extractedValue is null, and every claim that extractClaims
\* passes on has an extractedValue that is not null.
C14_UnknownIffNoValue ==
  ret # Null
    => /\ (ret.claim.claimType = "unknown") <=> (ret.claim.extractedValue = Null)
       /\ \A i \in DOMAIN ret.extracted :
            /\ ret.extracted[i].claimType # "unknown"
            /\ ret.extracted[i].extractedValue # Null

\* C14 happens: a post that passes the price gate and whose text gives the
\* pattern no threshold has been parsed, with type unknown and no value
C14_Witness ==
  /\ ret # Null
  /\ arg.content = "BTC below $50"
  /\ isExplicitPriceClaim(arg.content)
  /\ ret.claim.claimType = "unknown"
  /\ ret.claim.extractedValue = Null
  /\ ret.extracted = <<>>

\* C15: when the numeral of a price claim is immediately followed by k/K or
\* m/M, the extracted value is the numeral, without its thousands separators,
\* times 1,000 or 1,000,000: "BTC above $50k" gives 50000.
C15_SuffixMultiplies ==
  ret # Null
    => /\ \A a \in {"BTC", "eth/USD"}, v \in {" above ", " will exceed "},
            t \in {"k", "K by May"} :
            /\ arg.content = a \o v \o "$50" \o t
                 => ret.claim.extractedValue = Some(1000 * 5000)
            /\ arg.content = a \o v \o "$3,500" \o t
                 => ret.claim.extractedValue = Some(1000 * 350000)
       /\ arg.content = "ETH over $1.5M"
            => ret.claim.extractedValue = Some(1000000 * 150)

\* C16: a step in which saveVerdict writes the log leaves the new record
\* followed by the first 99 records of the previous log in unchanged order,
\* so the log never holds more than 100 records and is in reverse order of
\* processing; no other step changes the log.
C16_LogIsPrependedAndCapped ==
  [][ /\ Len(verdictsFile') <= LogCap
      /\ \A w \in Invocations :
           (pc[w] = "save" /\ pc'[w] = "save_sync")
             => /\ verdictsFile' # <<>>
                /\ verdictsFile'[1].postId = Current(w).postId
                /\ verdictsFile'[1].verdict = result[w].verdict
                /\ verdictsFile'[1].txHash = txHash[w]
                /\ Tail(verdictsFile') =
                     SubSeq(verdictsFile, 1,
                            IF Len(verdictsFile) < 99 THEN Len(verdictsFile) ELSE 99)
      /\ verdictsFile' # verdictsFile
           => \E w \in Invocations : pc[w] = "save" /\ pc'[w] = "save_sync" ]_vars

\* C16 happens: on a log of 100 records the cycle has saved demo-001 and then
\* demo-002; demo-002 is first, demo-001 second, the two oldest records are gone
C16_Witness ==
  /\ Len(verdictsFile) = LogCap
  /\ verdictsFile[1].postId = "demo-002"
  /\ verdictsFile[2].postId = "demo-001"
  /\ verdictsFile[3] = EarlierRecord(LogCap)
  /\ verdictsFile[LogCap] = EarlierRecord(3)

C18_EveryCycleReturns ==
  \A w \in Invocations : Running(w) ~> ~Running(w)

\* a record with the zero transaction id has been persisted for the id: the
\* proof step failed for it
ProofFailedFor(id) ==
  \E i \in DOMAIN verdictsFile :
    verdictsFile[i].postId = id /\ verdictsFile[i].txHash = ZERO_HASH

\* C19: after a proof-submission failure for a claim the proof step is not
\* entered again within the cycle (it is entered only from the verification),
\* the claim is marked processed when the step that follows the persisting of
\* its record ends, and no cycle calls storeVerdictOnChain for a claim id
\* whose record was persisted after a failed proof.
C19_NoProofRetry ==
  [][ \A w \in Invocations :
        /\ (pc[w] # "proof" /\ pc'[w] = "proof") => pc[w] = "verify"
        /\ (pc[w] = "save_sync" /\ pc'[w] # "save_sync")
             => isAlreadyVerified(verifiedFile', Current(w).postId)
        /\ (pc[w] = "proof" /\ pc'[w] # "proof")
             => ~ProofFailedFor(Current(w).postId) ]_vars

\* the records persisted for a claim id
RecordsFor(id) == {i \in DOMAIN verdictsFile : verdictsFile[i].postId = id}

\* C20: with the signing key or the notification API key missing, a cycle
\* still extracts its claims (the fetch can hand claims to the loop), and a
\* cycle that met no other failure has verified every claim and persisted its
\* record; only the proof (zero transaction id), respectively the
\* notification (no comment id), is missing from each record.
C20_MissingCredentialIsLocal ==
  (~env.PRIVATE_KEY \/ ~env.MOLTBOOK_API_KEY)
    => \A w \in Invocations :
         /\ pc[w] = "fetch" => ENABLED (FetchReturns(w) /\ pc'[w] = "check")
         /\ (pc[w] = "done" /\ faults = 0)
              => \A k \in DOMAIN claims[w] :
                   /\ isAlreadyVerified(verifiedFile, claims[w][k].postId)
                   /\ RecordsFor(claims[w][k].postId) # {}
                   /\ \A i \in RecordsFor(claims[w][k].postId) :
                        /\ (verdictsFile[i].txHash = ZERO_HASH) <=> ~env.PRIVATE_KEY
                        /\ (verdictsFile[i].commentId = Null) <=> ~env.MOLTBOOK_API_KEY

\* the order of the steps of one claim in runCycle: from the loop head to the
\* verification, the proof (its digest, its submission, its confirmation),
\* the notification, the persisting, the marking and the courtesy delay; a
\* step that fails goes where the code's catch sends it
StepOrder ==
  { <<"idle", "fetch">>, <<"idle", "check">>, <<"idle", "done">>,
    <<"fetch", "check">>, <<"fetch", "done">>,
    <<"check", "verify">>, <<"check", "done">>,
    <<"verify", "proof">>, <<"verify", "check">>,
    <<"proof", "proof_send">>, <<"proof", "notify">>,
    <<"proof_send", "proof_wait">>, <<"proof_send", "notify">>,
    <<"proof_wait", "notify">>,
    <<"notify", "notify_post">>, <<"notify", "save">>,
    <<"notify_post", "save">>,
    <<"save", "save_sync">>, <<"save", "check">>,
    <<"save_sync", "sleep">>, <<"save_sync", "check">>,
    <<"sleep", "check">> }

\* C21: within one cycle the steps of a claim occur in the order verify,
\* hash and submit proof, notify, persist, mark processed; a step starts only
\* when the one before it has returned or thrown (the notification starts with
\* no transaction of the claim still awaited), each side effect happens at its
\* own step, and the loop moves to the next claim only from the end of the
\* current claim's steps, the next claim starting with fresh locals.
C21_StepsInOrder ==
  [][\A w \in Invocations :
       /\ pc'[w] # pc[w] => <<pc[w], pc'[w]>> \in StepOrder
       /\ idx'[w] # idx[w]
            => /\ idx'[w] = idx[w] + 1
               /\ pc[w] \in {"check", "verify", "save", "save_sync", "sleep"}
               /\ pc'[w] = "check"
       /\ (pc[w] # "check" /\ pc'[w] = "check" /\ pc[w] \notin {"idle", "fetch"})
            => idx'[w] = idx[w] + 1
       /\ (pc[w] = "check" /\ pc'[w] = "verify")
            => /\ result[w] = NoResult /\ proof[w] = NoProof /\ commentId[w] = Null
               /\ txHash[w] = ZERO_HASH /\ verdictHash[w] = ZERO_HASH
       /\ (pc[w] # "notify" /\ pc'[w] = "notify" /\ proof'[w].tx # 0)
            => ledger'[proof'[w].tx].state # "pending"
       /\ (pc[w] = "save_sync" /\ pc'[w] = "sleep")
            => /\ verdictsFile # <<>>
               /\ \E i \in DOMAIN verdictsFile : verdictsFile[i].postId = Current(w).postId
               /\ isAlreadyVerified(verifiedFile', Current(w).postId)
     ]_vars
  /\ [][ /\ Len(ledger') > Len(ledger)
           => \E w \in Invocations :
                /\ pc[w] = "proof_send" /\ pc'[w] = "proof_wait"
                /\ ledger'[Len(ledger')].postId = Current(w).postId
         /\ Len(comments') > Len(comments)
           => \E w \in Invocations :
                /\ pc[w] = "notify_post" /\ pc'[w] = "save"
                /\ comments'[Len(comments')].postId = Current(w).postId
         /\ verdictsFile' # verdictsFile
           => \E w \in Invocations :
                /\ pc[w] = "save" /\ pc'[w] = "save_sync"
                /\ verdictsFile'[1].postId = Current(w).postId
         /\ verifiedFile' # verifiedFile
           => \E w \in Invocations :
                /\ pc[w] = "save_sync" /\ pc'[w] = "sleep"
                /\ verifiedFile'[Len(verifiedFile')] = Current(w).postId
       ]_vars

\* C21 happens: a cycle is verifying its second claim after its first went
\* through every step: a mined transaction, a comment, a record, the mark
C21_Witness ==
  \E w \in Invocations :
    /\ pc[w] = "verify"
    /\ idx[w] = 2
    /\ \E j \in DOMAIN ledger :
         ledger[j].postId = claims[w][1].postId /\ ledger[j].state = "mined"
    /\ CommentsFor(claims[w][1].postId) # {}
    /\ RecordsFor(claims[w][1].postId) # {}
    /\ isAlreadyVerified(verifiedFile, claims[w][1].postId)

\* the posts a feed delivered: those of a 2xx answer whose body is JSON
Delivered(r) == IF r # Rejected /\ ResOk(r) /\ r.json THEN r.body ELSE <<>>

\* the places <<feed, position>> at which the feeds delivered a post with the id
PlacesOf(rs, id) ==
  {<<k, j>> \in SUBMOLTS \X (1..3) : j <= Len(Delivered(rs[k])) /\ Delivered(rs[k])[j].id = id}

\* place a comes before place b in feed-list order
Before(a, b) == a[1] < b[1] \/ (a[1] = b[1] /\ a[2] < b[2])

\* the first of the places in feed-list order
FirstPlace(places) == CHOOSE a \in places : \A b \in places : a = b \/ Before(a, b)

\* C22: fetchMoltbookPosts throws exactly when the API key is missing; with
\* the key, whatever subset of the per-feed fetches failed, it returns for
\* every post id the delivered feeds hold exactly one post, the one at the
\* id's first place in feed-list order, the posts ordered by those places,
\* and nothing else.
C22_FetchToleratesFeedFailures ==
  ret # Null
    => /\ ret.threw <=> ~arg.hasKey
       /\ ~ret.threw
            => /\ \A id \in {"p0", "p1", "p2"} :
                    Cardinality({i \in DOMAIN ret.posts : ret.posts[i].id = id})
                      = IF PlacesOf(arg.rs, id) = {} THEN 0 ELSE 1
               /\ \A i \in DOMAIN ret.posts :
                    /\ PlacesOf(arg.rs, ret.posts[i].id) # {}
                    /\ LET first == FirstPlace(PlacesOf(arg.rs, ret.posts[i].id))
                       IN ret.posts[i] = Delivered(arg.rs[first[1]])[first[2]]
               /\ \A i, j \in DOMAIN ret.posts :
                    i < j => Before(FirstPlace(PlacesOf(arg.rs, ret.posts[i].id)),
                                    FirstPlace(PlacesOf(arg.rs, ret.posts[j].id)))

\* C22 happens: the first feed gave no response, the third a body that is no
\* JSON, and the posts of the two others came back, p2 and p1 once each
C22_Witness ==
  /\ ret # Null
  /\ arg.hasKey
  /\ arg.rs[1] = Rejected
  /\ arg.rs[2] = Http(200, <<FeedPost("p0"), FeedPost("p2")>>)
  /\ arg.rs[3] = Malformed(200)
  /\ arg.rs[4] = Http(200, <<Crosspost("p2"), FeedPost("p1"), Crosspost("p1")>>)
  /\ ret.posts = <<FeedPost("p0"), FeedPost("p2"), FeedPost("p1")>>

\* the verification under test is that of a gas-price claim
GasClaim ==
  /\ ret # Null
  /\ arg.claim.claimType = "defi"
  /\ isGas(arg.claim.claimText)
  /\ arg.claim.extractedValue # Null

\* the RPC query raised: no response, or a body that is no JSON
RpcRaised(rpc) == rpc = Rejected \/ ~rpc.json

\* C23: for a gas-price claim, if the RPC query raises, the TVL aggregator is
\* queried once after it and the outcome is that of the TVL strategy on the
\* aggregator's answer, a returned result naming DeFi Llama as its source (-44%
\* against a claimed 20 is TRUE with confidence 85); if the RPC query does not
\* raise, the aggregator is not queried, the result does not depend on what
\* the aggregator would answer, and it names the Ethereum RPC.
C23_GasFallsBackToTvl ==
  GasClaim =>
    IF RpcRaised(arg.net.rpc)
    THEN /\ defiRequests(arg.claim, arg.net.rpc) = <<"Ethereum RPC", "DeFi Llama">>
         /\ ret = verifyTvl(arg.claim, arg.net.llama)
         /\ ret.threw <=> (arg.net.llama = Rejected \/ ~ResOk(arg.net.llama))
         /\ ~ret.threw => ret.source = "DeFi Llama"
         /\ (arg.net.llama = Http(200, <<-4500, -4300>>) /\ arg.claim.extractedValue = Some(2000))
              => /\ ret.verdict = "TRUE"
                 /\ ret.confidence = Rat(85, 1)
                 /\ ret.currentValue = Some(-4400)
    ELSE /\ defiRequests(arg.claim, arg.net.rpc) = <<"Ethereum RPC">>
         /\ ~ret.threw
         /\ ret.source = "Ethereum RPC"
         /\ \A l \in TvlAnswers : verifyClaim(arg.claim, arg.hasKey, [arg.net EXCEPT !.llama = l]) = ret

\* C23 happens: the RPC gave no response for "gas fees above 20 gwei" and the
\* result is the TVL strategy's, from DeFi Llama
C23_Witness ==
  /\ GasClaim
  /\ arg.net.rpc = Rejected
  /\ arg.net.llama = Http(200, <<-4500, -4300>>)
  /\ ~ret.threw
  /\ ret.source = "DeFi Llama"
  /\ ret.verdict = "TRUE"

\* C24: when verifyClaim throws for a claim, the step only moves the loop to
\* the next claim of the cycle: the ProcessedSet, the log, its mirror, the
\* notification window, the ledger and the comments are unchanged; and a
\* cycle whose loop reaches a claim that is not in the ProcessedSet calls
\* verifyClaim for it, so the claim is attempted again when a later cycle
\* meets it.
C24_VerifyErrorSkipsOnlyTheClaim ==
  [][\A w \in Invocations :
       /\ (pc[w] = "verify" /\ pc'[w] # "verify" /\ lastVerify'.threw)
            => /\ pc'[w] = "check"
               /\ idx'[w] = idx[w] + 1
               /\ claims'[w] = claims[w]
               /\ UNCHANGED <<verifiedFile, verdictsFile, bin, commentTimestamps,
                              ledger, comments>>
       /\ ( /\ pc[w] = "check"
            /\ idx[w] <= Len(claims[w])
            /\ ~isAlreadyVerified(verifiedFile, Current(w).postId)
            /\ <<pc[w], idx[w]>>' # <<pc[w], idx[w]>> )
            => pc'[w] = "verify" /\ idx'[w] = idx[w]
     ]_vars

\* C24 happens: verifyClaim threw for a claim of main's cycle (the one
\* failure of the run, nothing sent, posted or stored), the cycle ended, and
\* a later cycle has verified the same claim and is at its proof
C24_Witness ==
  \E w \in Invocations :
    /\ w > 1
    /\ pc[1] = "done"
    /\ faults = 1 /\ ledger = <<>> /\ comments = <<>> /\ verdictsFile = <<>>
    /\ pc[w] = "proof"
    /\ \E k \in caught[1] : claims[1][k].postId = Current(w).postId

\* C25: every persisted record's verdictHash is computeVerdictHash of the
\* record's own postId, verdict, confidence and timestamp in Unix seconds,
\* whether its proof succeeded or failed.
C25_DigestRecomputable ==
  \A i \in DOMAIN verdictsFile :
    verdictsFile[i].verdictHash =
      computeVerdictHash(IdBytes(verdictsFile[i].postId), verdictsFile[i].verdict,
                         verdictsFile[i].confidence, verdictsFile[i].timestamp \div 1000)

\* C26: for the same CoinGecko answer and the same threshold of the
\* exceed-style ETH claim, the agent's verifyPriceClaim returns the verdict
\* and the confidence that the workflow's fetchEthPrice and evaluateClaim
\* give, also when the price equals the threshold, lies within 20% below it,
\* or is unavailable.
C26_AgentAndWorkflowAgree ==
  ( /\ ret # Null
    /\ arg.claim.claimType = "price"
    /\ arg.claim.claimText = TextEth
    /\ arg.claim.asset = Some("ETH")
    /\ arg.net.coingecko # Rejected
    /\ arg.net.coingecko.json )
    => LET workflow == evaluateClaim(fetchEthPrice(arg.net.coingecko),
                                     arg.claim.extractedValue[1])
       IN /\ ~ret.threw
          /\ ret.verdict = workflow.verdict
          /\ ret.confidence = workflow.confidence

\* C27: when a persisted record carries the zero transaction id, the ledger
\* holds no transaction for the record's claim that is mined or still
\* pending: the record never reports a failed proof while the digest is, or
\* can still be, stored.
C27_ZeroTxMeansNothingSent ==
  \A i \in DOMAIN verdictsFile :
    verdictsFile[i].txHash = ZERO_HASH
      => \A j \in TxsFor(verdictsFile[i].postId) : ledger[j].state \notin {"pending", "mined"}

\* C28: once a claim id is in the ProcessedSet, no comment is posted for it
\* in any later step, so a claim whose notification was skipped or failed is
\* not notified later.
C28_NoNotificationAfterMark ==
  [][\A id \in ClaimIds :
       isAlreadyVerified(verifiedFile, id) => CommentsFor(id)' = CommentsFor(id)]_vars

\* the verification under test is that of the TVL-drop claim and DeFi Llama
\* delivered its list
TvlClaim ==
  /\ ret # Null
  /\ arg.claim.claimType = "defi"
  /\ arg.claim.claimText = TextTvl
  /\ arg.claim.extractedValue # Null
  /\ arg.net.llama # Rejected /\ ResOk(arg.net.llama) /\ arg.net.llama.json

\* C29: for a TVL-drop claim whose claimed drop is at most 20 percent the
\* verdict is never FALSE: it is TRUE exactly when the observed drop (the
\* mean day-over-day change, negated, and 0 when the mean is a rise) exceeds
\* the claimed drop by more than 20 points, and UNVERIFIABLE otherwise.
C29_SmallDropNeverFalse ==
  (TvlClaim /\ arg.claim.extractedValue[1] <= 2000)
    => LET changes == arg.net.llama.body
           n       == Len(changes)
           claimed == arg.claim.extractedValue[1]
           beyond  == n > 0 /\ -SeqSum(changes) > n * (claimed + 2000)
       IN /\ ~ret.threw
          /\ ret.verdict # "FALSE"
          /\ ret.verdict = IF beyond THEN "TRUE" ELSE "UNVERIFIABLE"

\* C29 happens: a drop of 20% was claimed, the mean change is a rise of 1%,
\* and the verdict is UNVERIFIABLE
C29_Witness ==
  /\ TvlClaim
  /\ arg.claim.extractedValue = Some(2000)
  /\ arg.net.llama.body = <<-100, 300>>
  /\ ret.verdict = "UNVERIFIABLE"
  /\ ret.currentValue = Some(100)

\* C30: the packed pre-image of the tuple differs from the packed pre-image of
\* every other tuple (verdict labels TRUE, FALSE, UNVERIFIABLE, integer
\* confidence), in the agent's hasher and in the workflow's, although the
\* claim id and the label are packed without their lengths.
C30_PackingIsInjective ==
  ret # Null
    => \A t \in PackInputs :
         t # arg
           => /\ computeVerdictHash(t[1], t[2], Rat(t[3], 1), t[4]).keccak # ret.agent.keccak
              /\ workflowComputeVerdictHash(t[1], t[2], Rat(t[3], 1), t[4]).keccak
                   # ret.workflow.keccak

\* C30 happens: "p1F" with TRUE has been packed; "p1" with FALSE packs to a
\* string of the same length, which differs from it
C30_Witness ==
  /\ ret # Null
  /\ arg[1] = <<112, 49, 70>>
  /\ arg[2] = "TRUE"
  /\ Len(ret.agent.keccak) = 7 + 64
  /\ Len(computeVerdictHash(<<112, 49>>, "FALSE", Rat(arg[3], 1), arg[4]).keccak) = 7 + 64
  /\ computeVerdictHash(<<112, 49>>, "FALSE", Rat(arg[3], 1), arg[4]).keccak # ret.agent.keccak

====
